---------------------------- MODULE Spec2Model ----------------------------
(***************************************************************************)
(* Model of eidolon/Concurrency.py: the ProcessServer dispatch loop, the   *)
(* AlgorithmProcess worker loop and its sync() barrier.                    *)
(*                                                                         *)
(* A target routine is modelled as the program "call sync() `rounds' times *)
(* and return (job,index,startval,endval)"; it may raise between two sync  *)
(* calls.  The statements of sync() that run while syncLock is held are    *)
(* two steps (SyncEnter, SyncIncr), the wait loop and the code after it    *)
(* are one step each; a local statement is merged into the next statement  *)
(* that touches shared state.                                              *)
(*                                                                         *)
(* A sharing target calls shareObject() before each sync() and             *)
(* getObjects() after it; both go through the MethodProxy of the           *)
(* ObjectSharer, served by the worker's ObjectServer thread (ProxyLock,    *)
(* ProxyCall) in the parent process.                                       *)
(*                                                                         *)
(* The client side is callProcessFunc() with a later read of the Future,   *)
(* or a routine decorated with concurrent(), which reads the Future at     *)
(* once.  prepareArgs() slices the positional arguments of a job, and the  *)
(* reducers checkResultMap(), sumResultMap() and listResults() are         *)
(* operators over insertion-ordered result maps.                           *)
(*                                                                         *)
(* The test routine concurrencyTestRange is the target of the jobs whose   *)
(* field rounds is TestRange: its loop over prange() is modelled by the    *)
(* sync() calls it makes and its updates of the progress cell.  In local   *)
(* mode the whole target runs in one step of the dispatch loop, computed   *)
(* from sync() and shareObject() applied to the local process.             *)
(***************************************************************************)
EXTENDS Integers, Sequences, FiniteSets, TLC

(* ---- bounds of the model ---- *)
MaxPool == 3        \* largest pool size (realnumprocs) explored by Spec
MaxJobs == 2        \* number of callProcessFunc() calls
MaxRounds == 2      \* largest number of sync() calls made by one target
MaxRange == 3       \* largest valrange of a job
MaxFailures == 1    \* number of target invocations that raise
MaxPollErrors == 1  \* number of exceptions raised in the polling try block
MaxPartRange == 7   \* largest valrange explored by SpecPartition
MaxPartPool == 6    \* largest pool size explored by SpecPartition
MaxMethodErrors == 1 \* number of proxied method calls that raise

(* ---- the example of the docstring of callProcessFunc ---- *)
ExampleRange == 50  \* callProcessFunc(50,4,None,testfunc)
ExampleProcs == 4

VARIABLES
    realnumprocs,   \* ProcessServer.realnumprocs
    jobs,           \* every job submitted so far, in submission order
    jobqueue,       \* ProcessServer.jobqueue: indices into jobs
    future,         \* the Future of every submitted job
    stopEvent,      \* ProcessServer.stopEvent
    parentAlive,    \* processExists(parentPID)
    syncCounter,    \* ProcessServer.syncCounter.value
    syncLock,       \* holder of ProcessServer.syncLock, -1 when free
    syncEvents,     \* the two shared Event objects: <<syncEvent, syncEvent2>>
    wpc,            \* per worker: position in AlgorithmProcess.run / sync
    curEvent,       \* per worker: which shared event self.syncEvent refers to
    wfields,        \* per worker: startval, endval, maxval, total
    wjob,           \* per worker: job whose target is being executed
    wround,         \* per worker: sync() calls completed in this target
    dowait,         \* per worker: local variable dowait of sync()
    send,           \* per worker: instruction pipe (send -> recv)
    rrecv,          \* per worker: result pipe (rsend -> rrecv)
    dpc,            \* position of ProcessServer.run
    djob,           \* job dequeued by the dispatch loop, 0 when none
    numprocs,       \* local numprocs of ProcessServer.run
    di,             \* loop index of the send loop / of the result collection
    collected,      \* results received so far by the dict() of line 471
    objmap,         \* ObjectSharer.objmap: worker index -> object shared as "x"
    sharerLock,     \* holder of lockobj(sharer), -1 when free
    proxyReq,       \* per worker: requests sent on the proxy (send -> send_r)
    proxyResp,      \* per worker: responses of the proxy (recv_s -> recv)
    ppc,            \* per worker: position of its ObjectServer.runProxy thread
    wshared,        \* per worker: map returned by its last shareObject()
    reader,         \* per job: the client's read of the job's Future
    reducer,        \* a result map and what a reducer called on it gave
    progress,       \* ProcessServer.progress: one cell per process of the pool
    hStarted,       \* history: jobs with a message sent or the local target run
    hRaised,        \* history: <<job, index>> of every target call that raised
    hPollErr,       \* history: jobs resolved by the except clause of line 472
    hMethodErr      \* history: <<job, index, name>> of every proxied call that raised

svars == <<realnumprocs, jobs, jobqueue, future, stopEvent, parentAlive>>
bvars == <<syncCounter, syncLock, syncEvents>>
wvars == <<wpc, curEvent, wfields, wjob, wround, dowait>>
cvars == <<send, rrecv>>
dvars == <<dpc, djob, numprocs, di, collected>>
hvars == <<hStarted, hRaised, hPollErr>>
ovars == <<objmap, sharerLock, proxyReq, proxyResp, ppc, wshared>>
vars ==
    <<svars, bvars, wvars, cvars, dvars, hvars, ovars, reader, hMethodErr, reducer,
      progress>>

Min(a, b) == IF a < b THEN a ELSE b

(* indices of ProcessServer.procs: no process is created for a pool of 1 *)
ProcsOf(pool) == IF pool > 1 THEN 0 .. pool - 1 ELSE {}
Procs == ProcsOf(realnumprocs)
EmptyMap == [x \in {} |-> 0]
WorkerIds == 0 .. MaxPool - 1

(* jobs submitted under Spec: on the whole pool (numprocs 0) or local *)
(* (numprocs 1), with a target that calls sync() once                 *)
JobType ==
    [valrange : {MaxRange}, numprocs : 0 .. 1, rounds : {1}, share : {FALSE}, args : {<<>>}, partitionArgs : {{}}]

(* jobs submitted under SpecAnyRange: as under Spec, with an empty and *)
(* a negative value range as well                                     *)
AnyRangeJobType ==
    [valrange : {-1, 0, MaxRange}, numprocs : 0 .. 1, rounds : {1},
     share : {FALSE}, args : {<<>>}, partitionArgs : {{}}]

(* jobs submitted under SpecExample: on ExampleProcs processes, with a *)
(* target that returns at once                                        *)
ExampleJobType ==
    [valrange : {1, MaxRange, ExampleRange}, numprocs : {ExampleProcs},
     rounds : {0}, share : {FALSE}, args : {<<>>}, partitionArgs : {{}}]
ExampleIds == 0 .. ExampleProcs - 1

(* jobs submitted under SpecShare: as under Spec, with a target that *)
(* calls shareObject("x", index) once                                *)
ShareJobType ==
    [valrange : {MaxRange}, numprocs : 0 .. 1, rounds : {1}, share : {TRUE}, args : {<<>>}, partitionArgs : {{}}]

(* jobs submitted under SpecExchange: on the whole pool, with a target *)
(* that calls shareObject("x", index) twice in succession              *)
ExchangeJobType ==
    [valrange : {MaxRange}, numprocs : {0}, rounds : {2}, share : {TRUE},
     args : {<<>>}, partitionArgs : {{}}]

(* value of the field rounds of a job whose target is the routine *)
(* concurrencyTestRange                                           *)
TestRange == -1

(* jobs submitted under SpecTestRange: concurrencyTestRange on the *)
(* whole pool, for every range size up to MaxPartRange             *)
TestRangeJobType ==
    [valrange : 1 .. MaxPartRange, numprocs : {0}, rounds : {TestRange},
     share : {FALSE}, args : {<<>>}, partitionArgs : {{}}]

(* jobs submitted under SpecSetup: targets that share an object and *)
(* the routine concurrencyTestRange, on the whole pool or local     *)
SetupJobType ==
    ShareJobType \cup
    [valrange : {MaxRange}, numprocs : {0}, rounds : {TestRange},
     share : {FALSE}, args : {<<>>}, partitionArgs : {{}}]

(* jobs submitted under SpecPartPool: local or on two workers of a *)
(* larger pool, with a target that calls sync() once               *)
PartPoolJobType ==
    [valrange : {MaxRange}, numprocs : 1 .. 2, rounds : {1}, share : {FALSE},
     args : {<<>>}, partitionArgs : {{}}]

(* jobs submitted under SpecBarrier: on the whole pool, local or on two *)
(* workers, with a target that calls sync() 1 to MaxRounds times       *)
BarrierJobType ==
    [valrange : {MaxRange}, numprocs : 0 .. 2, rounds : 1 .. MaxRounds,
     share : {FALSE}, args : {<<>>}, partitionArgs : {{}}]

(* jobs submitted under SpecCount: value ranges below, at and above the *)
(* pool size, requested counts from "all" to more than the pool has    *)
CountJobType ==
    [valrange : {-1, 1, 2, MaxRange + 1}, numprocs : {-1, 0, 1, 2, MaxPool + 1},
     rounds : {1}, share : {FALSE}, args : {<<>>}, partitionArgs : {{}}]

(* the list range(n), as in values=range(10) of the docstring of *)
(* concurrent()                                                 *)
ListOf(n) == [x \in 1 .. n |-> x - 1]

(* jobs submitted under SpecArgs: two list arguments of the length of *)
(* the value range or not, of which the caller names any in the       *)
(* partitionArgs tuple (held here as the positions of the objects in  *)
(* args that the caller put into the tuple)                           *)
ArgsJobType ==
    [valrange : {2, MaxRange}, numprocs : {0}, rounds : {1}, share : {FALSE},
     args : {<<ListOf(a), ListOf(b)>> : a, b \in {2, MaxRange}},
     partitionArgs : SUBSET {1, 2}]

(* ---- Utils.partitionSequence(maxval, part, numparts) ---- *)
(* jobs of every value range up to MaxPartRange, on the whole pool or *)
(* on two processes                                                  *)
PartitionJobType ==
    [valrange : 1 .. MaxPartRange, numprocs : {0, 2}, rounds : {1},
     share : {FALSE}, args : {<<>>}, partitionArgs : {{}}]

partitionSequence(maxval, part, numparts) ==
    <<(part * maxval) \div numparts, ((part + 1) * maxval) \div numparts>>

ResolveNumProcsNoClamp(valrange, req, pool) ==
    IF req <= 0 \/ req > pool THEN pool ELSE req

(* numprocs as resolved on line 427 *)
ResolveNumProcs(valrange, req, pool) ==
    Min(valrange, IF req <= 0 \/ req > pool THEN pool ELSE req)

(* the indices of self.procs[:n] for a list of `pool' workers *)
ProcSlice(n, pool) ==
    IF n >= 0 THEN 0 .. Min(n, pool) - 1 ELSE 0 .. pool + n - 1

(* results and exceptions travelling on the result pipes *)
Result(kind, j, i, s, e) ==
    [exc |-> kind, job |-> j, index |-> i, startval |-> s, endval |-> e]
PollException(j) == Result("poll", j, -1, 0, 0)

(* Future.setObject *)
setObject(f, obj) == [sets |-> f.sets + 1, obj |-> obj]

continueRunningNoParent == ~stopEvent

(* AlgorithmProcess._continueRunning *)
continueRunning == ~stopEvent /\ parentAlive

(* ProcessServer.__init__ and the start of run() for a pool of the *)
(* given size                                                     *)
InitServer(pool) ==
    /\ realnumprocs = pool
    /\ jobs = <<>>
    /\ jobqueue = <<>>
    /\ future = <<>>
    /\ stopEvent = FALSE
    /\ parentAlive = TRUE
    /\ syncCounter = 0
    /\ syncLock = -1
    /\ syncEvents = <<FALSE, FALSE>>
    /\ wpc = [w \in ProcsOf(pool) |-> "idle"]
    /\ curEvent = [w \in ProcsOf(pool) |-> 1]
    /\ wfields = [w \in ProcsOf(pool) |->
                    [startval |-> 0, endval |-> 0, maxval |-> 0, total |-> pool]]
    /\ wjob = [w \in ProcsOf(pool) |-> 0]
    /\ wround = [w \in ProcsOf(pool) |-> 0]
    /\ dowait = [w \in ProcsOf(pool) |-> FALSE]
    /\ send = [w \in ProcsOf(pool) |-> <<>>]
    /\ rrecv = [w \in ProcsOf(pool) |-> <<>>]
    /\ dpc = "loop"
    /\ djob = 0
    /\ numprocs = 0
    /\ di = 0
    /\ collected = EmptyMap
    /\ hStarted = {}
    /\ hRaised = {}
    /\ hPollErr = {}
    /\ objmap = EmptyMap
    /\ sharerLock = -1
    /\ proxyReq = [w \in ProcsOf(pool) |-> <<>>]
    /\ proxyResp = [w \in ProcsOf(pool) |-> <<>>]
    /\ ppc = [w \in ProcsOf(pool) |-> "poll"]
    /\ wshared = [w \in ProcsOf(pool) |-> EmptyMap]
    /\ reader = <<>>
    /\ hMethodErr = {}
    /\ progress = [i \in 0 .. pool - 1 |-> 0]

(* the values a result map holds: a plain value, an exception or a list *)
Atom(name) == [kind |-> "atom", name |-> name, items |-> <<>>]
Exc(name) == [kind |-> "exception", name |-> name, items |-> <<>>]
List(items) == [kind |-> "list", name |-> "", items |-> items]

(* no reducer has been called *)
NoReduction ==
    [map |-> <<>>, op |-> "none", raised |-> FALSE, val |-> Atom("None"),
     listed |-> <<>>, summed |-> <<>>]

InitFor(pool) == InitServer(pool) /\ reducer = NoReduction

(* the values of the result maps given to the reducers *)
ResultValues ==
    {Atom("a"), Atom("b"), Atom("5"), Exc("err"), Exc("err2"),
     List(<<1, 2>>), List(<<3>>)}

(* the result maps given to the reducers: Python dicts with worker   *)
(* indices as keys, held as the sequence of their (key, value) items *)
(* in insertion order                                                *)
ResultDicts ==
    {m \in UNION {[1 .. n -> [key : WorkerIds, val : ResultValues]] :
                       n \in 0 .. MaxPool} :
        \A a, b \in DOMAIN m : a # b => m[a].key # m[b].key}

(* a result map has been built and no reducer has been called on it *)
InitReduce ==
    /\ InitServer(1)
    /\ \E m \in ResultDicts : reducer = [NoReduction EXCEPT !.map = m]

(* a server without worker processes, and one with two *)
PoolSizes == 1 .. 2
Init == \E pool \in PoolSizes : InitFor(pool)

(* servers of every size up to MaxPartPool *)
InitPartition == \E pool \in 1 .. MaxPartPool : InitFor(pool)

(* servers of every size up to MaxPool *)
InitCount == \E pool \in 1 .. MaxPool : InitFor(pool)

(* the server of the docstring example *)
InitExample == InitFor(ExampleProcs)

(* a server with MaxPool worker processes *)
InitBarrier == InitFor(MaxPool)

(* ------------------------------------------------------------------ *)
(* Clients of the server                                              *)
(* ------------------------------------------------------------------ *)

(* the client's read of a Future: not called, blocked in the call with *)
(* a finite timeout or with timeout None, ended by the timeout error,  *)
(* or returned with the object of the Future                           *)
Unread == [pc |-> "unread", finite |-> FALSE, val |-> EmptyMap]
Waiting(finite) == [pc |-> "waiting", finite |-> finite, val |-> EmptyMap]

EnqueueNoPut(job) ==
    /\ parentAlive
    /\ Len(jobs) < MaxJobs
    /\ jobs' = Append(jobs, job)
    /\ future' = Append(future, [sets |-> 0, obj |-> EmptyMap])
    /\ UNCHANGED <<realnumprocs, jobqueue, stopEvent, parentAlive>>
    /\ UNCHANGED <<bvars, wvars, cvars, dvars, hvars>>
    /\ UNCHANGED <<ovars, hMethodErr, reducer, progress>>

(* lines 393-395: create a Future and put the job on the queue *)
Enqueue(job) ==
    /\ parentAlive
    /\ Len(jobs) < MaxJobs
    /\ jobs' = Append(jobs, job)
    /\ future' = Append(future, [sets |-> 0, obj |-> EmptyMap])
    /\ jobqueue' = Append(jobqueue, Len(jobs) + 1)
    /\ UNCHANGED <<realnumprocs, stopEvent, parentAlive>>
    /\ UNCHANGED <<bvars, wvars, cvars, dvars, hvars>>
    /\ UNCHANGED <<ovars, hMethodErr, reducer, progress>>

(* ProcessServer.callProcessFunc: create a Future, enqueue the job and *)
(* return the Future to the caller                                     *)
callProcessFunc(job) ==
    /\ Enqueue(job)
    /\ reader' = Append(reader, Unread)

concurrent_wrapperNoWait(job) ==
    /\ \A j \in DOMAIN reader : reader[j].pc # "waiting"
    /\ Enqueue(job)
    /\ reader' = Append(reader, [pc |-> "returned", finite |-> FALSE,
                                  val |-> EmptyMap])

(* lines 565-567 and 570-572: the wrapper made by concurrent() calls *)
(* callProcessFunc and then future(None), in which it blocks; the    *)
(* client is one thread, which calls the wrapper again only after    *)
(* the call before has returned                                      *)
concurrent_wrapper(job) ==
    /\ \A j \in DOMAIN reader : reader[j].pc # "waiting"
    /\ Enqueue(job)
    /\ reader' = Append(reader, Waiting(FALSE))

(* Future.__call__(timeout): the client starts to read the Future of *)
(* job j with a finite timeout                                       *)
FutureCall(j) ==
    /\ j \in DOMAIN reader
    /\ reader[j].pc = "unread"
    /\ reader' = [reader EXCEPT ![j] = Waiting(TRUE)]
    /\ UNCHANGED <<svars, bvars, wvars, cvars, dvars, hvars, ovars>>
    /\ UNCHANGED <<hMethodErr, reducer, progress>>

(* the timeout of the read elapses with the Future still unset: the *)
(* call raises the timeout error                                    *)
FutureTimeout(j) ==
    /\ j \in DOMAIN reader
    /\ reader[j].pc = "waiting"
    /\ reader[j].finite
    /\ future[j].sets = 0
    /\ reader' = [reader EXCEPT ![j].pc = "timeout"]
    /\ UNCHANGED <<svars, bvars, wvars, cvars, dvars, hvars, ovars>>
    /\ UNCHANGED <<hMethodErr, reducer, progress>>

(* the Future is set while the client waits: the call returns its *)
(* object                                                         *)
FutureReturn(j) ==
    /\ j \in DOMAIN reader
    /\ reader[j].pc = "waiting"
    /\ future[j].sets > 0
    /\ reader' = [reader EXCEPT ![j].pc = "returned", ![j].val = future[j].obj]
    /\ UNCHANGED <<svars, bvars, wvars, cvars, dvars, hvars, ovars>>
    /\ UNCHANGED <<hMethodErr, reducer, progress>>

(* ProcessServer.stop *)
stop ==
    /\ parentAlive
    /\ ~stopEvent
    /\ stopEvent' = TRUE
    /\ UNCHANGED <<realnumprocs, jobs, jobqueue, future, parentAlive>>
    /\ UNCHANGED <<bvars, wvars, cvars, dvars, hvars>>
    /\ UNCHANGED ovars
    /\ UNCHANGED <<reader, hMethodErr, reducer, progress>>

(* the process hosting the server disappears: processExists(parentPID) *)
(* is false from now on and the dispatch thread takes no further step  *)
ParentExit ==
    /\ parentAlive
    /\ parentAlive' = FALSE
    /\ UNCHANGED <<realnumprocs, jobs, jobqueue, future, stopEvent>>
    /\ UNCHANGED <<bvars, wvars, cvars, dvars, hvars>>
    /\ UNCHANGED ovars
    /\ UNCHANGED <<reader, hMethodErr, reducer, progress>>

(* ------------------------------------------------------------------ *)
(* The reducers checkResultMap, sumResultMap and listResults          *)
(* ------------------------------------------------------------------ *)

(* iterating a dict yields its keys in insertion order *)
Keys(result) == [n \in DOMAIN result |-> result[n].key]

(* result[i] *)
GetItem(result, i) ==
    result[CHOOSE n \in DOMAIN result : result[n].key = i].val

(* sorted(keys): the keys in ascending order *)
RECURSIVE sorted(_)
sorted(keys) ==
    IF keys = <<>> THEN <<>>
    ELSE LET n == CHOOSE n \in DOMAIN keys :
                      \A o \in DOMAIN keys : keys[n] <= keys[o]
         IN <<keys[n]>> \o sorted(SubSeq(keys, 1, n - 1) \o
                                    SubSeq(keys, n + 1, Len(keys)))

(* isinstance(v, Exception) *)
isException(v) == v.kind = "exception"

(* the outcome of a call: the exception raised, or None returned *)
Raise(v) == [raised |-> TRUE, val |-> v]
ReturnNone == [raised |-> FALSE, val |-> Atom("None")]

(* lines 506-508: the loop over the keys ks *)
RECURSIVE checkLoop(_, _)
checkLoop(result, ks) ==
    IF ks = <<>> THEN ReturnNone
    ELSE IF isException(GetItem(result, Head(ks)))
         THEN Raise(GetItem(result, Head(ks)))
         ELSE checkLoop(result, Tail(ks))

checkResultMapUnsorted(result) == checkLoop(result, Keys(result))

(* checkResultMap(result) *)
checkResultMap(result) == checkLoop(result, sorted(Keys(result)))

listResultsUnsorted(result) ==
    LET ks == Keys(result)
    IN [n \in DOMAIN ks |-> GetItem(result, ks[n])]

(* listResults(result): [result[i] for i in sorted(result)] *)
listResults(result) ==
    LET ks == sorted(Keys(result))
    IN [n \in DOMAIN ks |-> GetItem(result, ks[n])]

(* Utils.listSum: the lists of a sequence joined into one *)
RECURSIVE listSum(_)
listSum(lists) ==
    IF lists = <<>> THEN <<>> ELSE Head(lists).items \o listSum(Tail(lists))

(* sumResultMap(result): listSum(result[i] for i in sorted(result)) *)
sumResultMap(result) ==
    LET ks == sorted(Keys(result))
    IN listSum([n \in DOMAIN ks |-> GetItem(result, ks[n])])

(* a client calls checkResultMap on the result map *)
CallCheckResultMap ==
    /\ reducer.op = "none"
    /\ reducer' = [reducer EXCEPT !.op = "checkResultMap",
                                   !.raised = checkResultMap(reducer.map).raised,
                                   !.val = checkResultMap(reducer.map).val]
    /\ UNCHANGED <<svars, bvars, wvars, cvars, dvars, hvars, ovars>>
    /\ UNCHANGED <<reader, hMethodErr, progress>>

(* a client calls listResults on the result map *)
CallListResults ==
    /\ reducer.op = "none"
    /\ reducer' = [reducer EXCEPT !.op = "listResults",
                                   !.listed = listResults(reducer.map)]
    /\ UNCHANGED <<svars, bvars, wvars, cvars, dvars, hvars, ovars>>
    /\ UNCHANGED <<reader, hMethodErr, progress>>

(* a client calls sumResultMap on a result map whose values are lists *)
CallSumResultMap ==
    /\ reducer.op = "none"
    /\ \A n \in DOMAIN reducer.map : reducer.map[n].val.kind = "list"
    /\ reducer' = [reducer EXCEPT !.op = "sumResultMap",
                                   !.summed = sumResultMap(reducer.map)]
    /\ UNCHANGED <<svars, bvars, wvars, cvars, dvars, hvars, ovars>>
    /\ UNCHANGED <<reader, hMethodErr, progress>>

(* ------------------------------------------------------------------ *)
(* ProcessServer.run, the dispatch loop                               *)
(* ------------------------------------------------------------------ *)

(* line 423: while not self.stopEvent.is_set() *)
DispLoop ==
    /\ parentAlive
    /\ dpc = "loop"
    /\ dpc' = IF stopEvent THEN "stopped" ELSE "get"
    /\ UNCHANGED <<djob, numprocs, di, collected>>
    /\ UNCHANGED <<svars, bvars, wvars, cvars, hvars>>
    /\ UNCHANGED ovars
    /\ UNCHANGED <<reader, hMethodErr, reducer, progress>>

(* a queue that hands out the newest job first *)
NextJobLifo(q) == q[Len(q)]

(* the job taken from the queue by jobqueue.get(True) *)
NextJob(q) == Head(q)

DispGetWholePool ==
    /\ parentAlive
    /\ dpc = "get"
    /\ jobqueue # <<>>
    /\ LET j == NextJob(jobqueue)
           k == ResolveNumProcs(jobs[j].valrange, jobs[j].numprocs, realnumprocs)
       IN /\ djob' = j
          /\ jobqueue' = SelectSeq(jobqueue, LAMBDA x : x # j)
          /\ numprocs' = IF k = 1 THEN 1 ELSE realnumprocs
          /\ dpc' = IF k = 1 \/ Procs = {} THEN "local" ELSE "reset"
    /\ objmap' = EmptyMap
    /\ progress' = [i \in DOMAIN progress |-> 0]
    /\ UNCHANGED <<sharerLock, proxyReq, proxyResp, ppc, wshared>>
    /\ UNCHANGED <<di, collected>>
    /\ UNCHANGED <<realnumprocs, jobs, future, stopEvent, parentAlive>>
    /\ UNCHANGED <<bvars, wvars, cvars, hvars>>
    /\ UNCHANGED <<reader, hMethodErr, reducer>>

(* lines 424-438: dequeue, resolve numprocs, clear the registry with a *)
(* direct call of self.sharer.clear() (line 429), zero the progress    *)
(* cells (lines 431-432), choose local or multi-worker                 *)
DispGet ==
    /\ parentAlive
    /\ dpc = "get"
    /\ jobqueue # <<>>
    /\ LET j == NextJob(jobqueue)
           k == ResolveNumProcs(jobs[j].valrange, jobs[j].numprocs, realnumprocs)
       IN /\ djob' = j
          /\ jobqueue' = SelectSeq(jobqueue, LAMBDA x : x # j)
          /\ numprocs' = k
          /\ dpc' = IF k = 1 \/ Procs = {} THEN "local" ELSE "reset"
    /\ objmap' = EmptyMap
    /\ progress' = [i \in DOMAIN progress |-> 0]
    /\ UNCHANGED <<sharerLock, proxyReq, proxyResp, ppc, wshared>>
    /\ UNCHANGED <<di, collected>>
    /\ UNCHANGED <<realnumprocs, jobs, future, stopEvent, parentAlive>>
    /\ UNCHANGED <<bvars, wvars, cvars, hvars>>
    /\ UNCHANGED <<reader, hMethodErr, reducer>>

DispResetKeep ==
    /\ parentAlive
    /\ dpc = "reset"
    /\ di' = 0
    /\ dpc' = IF numprocs > 0 THEN "send" ELSE "poll"
    /\ UNCHANGED <<syncCounter, syncLock, syncEvents, djob, numprocs, collected>>
    /\ UNCHANGED <<svars, wvars, cvars, hvars>>
    /\ UNCHANGED ovars
    /\ UNCHANGED <<reader, hMethodErr, reducer, progress>>

(* line 453: self.syncCounter.value=0, written without syncLock *)
DispReset ==
    /\ parentAlive
    /\ dpc = "reset"
    /\ syncCounter' = 0
    /\ di' = 0
    /\ dpc' = IF numprocs > 0 THEN "send" ELSE "poll"
    /\ UNCHANGED <<syncLock, syncEvents, djob, numprocs, collected>>
    /\ UNCHANGED <<svars, wvars, cvars, hvars>>
    /\ UNCHANGED ovars
    /\ UNCHANGED <<reader, hMethodErr, reducer, progress>>

(* the Python slice a[astart:aend] of a list *)
PySlice(a, astart, aend) ==
    SubSeq(a, Min(astart, Len(a)) + 1, Min(aend, Len(a)))

(* line 401: a in partArgs, the membership test of a tuple, which *)
(* compares the members with a by ==                              *)
InPartArgs(a, j) == \E p \in jobs[j].partitionArgs : jobs[j].args[p] = a

(* ProcessServer.prepareArgs(index, numprocs, args, partArgs) for the *)
(* arguments of job j                                                 *)
prepareArgs(index, k, j) ==
    [n \in DOMAIN jobs[j].args |->
        LET a == jobs[j].args[n]
            r == partitionSequence(Len(a), index, k)
        IN IF InPartArgs(a, j) THEN PySlice(a, r[1], r[2]) ELSE a]

(* the message of line 460 for worker i *)
JobMessageChunk(j, i, k) ==
    LET n == jobs[j].valrange
        chunk == n \div k
    IN [job |-> j, startval |-> i * chunk,
        endval |-> IF i = k - 1 THEN n ELSE (i + 1) * chunk,
        maxval |-> n, total |-> k, pargs |-> prepareArgs(i, k, j)]

JobMessage(j, i, k) ==
    LET r == partitionSequence(jobs[j].valrange, i, k)
    IN [job |-> j, startval |-> r[1], endval |-> r[2],
        maxval |-> jobs[j].valrange, total |-> k,
        pargs |-> prepareArgs(i, k, j)]

DispSendPool ==
    /\ parentAlive
    /\ dpc = "send"
    /\ di < numprocs
    /\ send' = [send EXCEPT ![di] = Append(@, JobMessage(djob, di, realnumprocs))]
    /\ di' = di + 1
    /\ dpc' = IF di + 1 < numprocs THEN "send" ELSE "poll"
    /\ hStarted' = hStarted \cup {djob}
    /\ UNCHANGED <<rrecv, djob, numprocs, collected>>
    /\ UNCHANGED <<svars, bvars, wvars, hRaised, hPollErr>>
    /\ UNCHANGED ovars
    /\ UNCHANGED <<reader, hMethodErr, reducer, progress>>

(* lines 456-460: one iteration of the send loop *)
DispSend ==
    /\ parentAlive
    /\ dpc = "send"
    /\ di < numprocs
    /\ send' = [send EXCEPT ![di] = Append(@, JobMessage(djob, di, numprocs))]
    /\ di' = di + 1
    /\ dpc' = IF di + 1 < numprocs THEN "send" ELSE "poll"
    /\ hStarted' = hStarted \cup {djob}
    /\ UNCHANGED <<rrecv, djob, numprocs, collected>>
    /\ UNCHANGED <<svars, bvars, wvars, hRaised, hPollErr>>
    /\ UNCHANGED ovars
    /\ UNCHANGED <<reader, hMethodErr, reducer, progress>>

(* line 464: the polling loop ends when every p.rrecv.poll() is true *)
PollDone(n) == \A p \in ProcSlice(n, realnumprocs) : rrecv[p] # <<>>

DispPoll ==
    /\ parentAlive
    /\ dpc = "poll"
    /\ PollDone(numprocs)
    /\ dpc' = "collect"
    /\ di' = 0
    /\ collected' = EmptyMap
    /\ UNCHANGED <<djob, numprocs>>
    /\ UNCHANGED <<svars, bvars, wvars, cvars, hvars>>
    /\ UNCHANGED ovars
    /\ UNCHANGED <<reader, hMethodErr, reducer, progress>>

(* line 471: one p.rrecv.recv() of the dict() construction *)
DispRecv ==
    /\ parentAlive
    /\ dpc = "collect"
    /\ di \in ProcSlice(numprocs, realnumprocs)
    /\ rrecv[di] # <<>>
    /\ collected' = (di :> Head(rrecv[di])) @@ collected
    /\ rrecv' = [rrecv EXCEPT ![di] = Tail(@)]
    /\ di' = di + 1
    /\ UNCHANGED <<send, dpc, djob, numprocs>>
    /\ UNCHANGED <<svars, bvars, wvars, hvars>>
    /\ UNCHANGED ovars
    /\ UNCHANGED <<reader, hMethodErr, reducer, progress>>

DispSetResultTwice ==
    /\ parentAlive
    /\ dpc = "collect"
    /\ di \notin ProcSlice(numprocs, realnumprocs)
    /\ future' = [future EXCEPT ![djob] = setObject(setObject(@, collected), collected)]
    /\ dpc' = "loop"
    /\ UNCHANGED <<djob, numprocs, di, collected>>
    /\ UNCHANGED <<realnumprocs, jobs, jobqueue, stopEvent, parentAlive>>
    /\ UNCHANGED <<bvars, wvars, cvars, hvars>>
    /\ UNCHANGED ovars
    /\ UNCHANGED <<reader, hMethodErr, reducer, progress>>

(* line 471: result.setObject(dict(...)) once every result is received *)
DispSetResult ==
    /\ parentAlive
    /\ dpc = "collect"
    /\ di \notin ProcSlice(numprocs, realnumprocs)
    /\ future' = [future EXCEPT ![djob] = setObject(@, collected)]
    /\ dpc' = "loop"
    /\ UNCHANGED <<djob, numprocs, di, collected>>
    /\ UNCHANGED <<realnumprocs, jobs, jobqueue, stopEvent, parentAlive>>
    /\ UNCHANGED <<bvars, wvars, cvars, hvars>>
    /\ UNCHANGED ovars
    /\ UNCHANGED <<reader, hMethodErr, reducer, progress>>

(* lines 472-474: poll() or recv() raised; every slot gets the exception *)
DispPollError ==
    /\ parentAlive
    /\ dpc \in {"poll", "collect"}
    /\ Cardinality(hPollErr) < MaxPollErrors
    /\ hPollErr' = hPollErr \cup {djob}
    /\ future' = [future EXCEPT ![djob] = setObject(@,
          [p \in ProcSlice(numprocs, realnumprocs) |-> PollException(djob)])]
    /\ dpc' = "loop"
    /\ UNCHANGED <<djob, numprocs, di, collected>>
    /\ UNCHANGED <<realnumprocs, jobs, jobqueue, stopEvent, parentAlive>>
    /\ UNCHANGED <<bvars, wvars, cvars, hStarted, hRaised>>
    /\ UNCHANGED ovars
    /\ UNCHANGED <<reader, hMethodErr, reducer, progress>>

(* ------------------------------------------------------------------ *)
(* AlgorithmProcess.run, the worker loop                              *)
(* ------------------------------------------------------------------ *)

WorkerRecvMisread(w) ==
    /\ w \in Procs
    /\ wpc[w] = "idle"
    /\ continueRunning
    /\ send[w] # <<>>
    /\ LET m == Head(send[w])
       IN /\ wfields' = [wfields EXCEPT ![w] =
                [startval |-> m.startval, endval |-> m.maxval,
                 maxval |-> m.endval, total |-> m.total]]
          /\ wjob' = [wjob EXCEPT ![w] = m.job]
    /\ send' = [send EXCEPT ![w] = Tail(@)]
    /\ wround' = [wround EXCEPT ![w] = 0]
    /\ wpc' = [wpc EXCEPT ![w] = "body"]
    /\ UNCHANGED <<curEvent, dowait, rrecv>>
    /\ UNCHANGED <<svars, bvars, dvars, hvars>>
    /\ UNCHANGED ovars
    /\ UNCHANGED <<reader, hMethodErr, reducer, progress>>

(* lines 300-304: receive an execution request and call the target *)
WorkerRecv(w) ==
    /\ w \in Procs
    /\ wpc[w] = "idle"
    /\ continueRunning
    /\ send[w] # <<>>
    /\ LET m == Head(send[w])
       IN /\ wfields' = [wfields EXCEPT ![w] =
                [startval |-> m.startval, endval |-> m.endval,
                 maxval |-> m.maxval, total |-> m.total]]
          /\ wjob' = [wjob EXCEPT ![w] = m.job]
    /\ send' = [send EXCEPT ![w] = Tail(@)]
    /\ wround' = [wround EXCEPT ![w] = 0]
    /\ wpc' = [wpc EXCEPT ![w] = "body"]
    /\ UNCHANGED <<curEvent, dowait, rrecv>>
    /\ UNCHANGED <<svars, bvars, dvars, hvars>>
    /\ UNCHANGED ovars
    /\ UNCHANGED <<reader, hMethodErr, reducer, progress>>

(* line 300: the loop ends once _continueRunning() is false *)
WorkerExit(w) ==
    /\ w \in Procs
    /\ wpc[w] = "idle"
    /\ ~continueRunning
    /\ wpc' = [wpc EXCEPT ![w] = "exited"]
    /\ UNCHANGED <<curEvent, wfields, wjob, wround, dowait>>
    /\ UNCHANGED <<svars, bvars, cvars, dvars, hvars>>
    /\ UNCHANGED ovars
    /\ UNCHANGED <<reader, hMethodErr, reducer, progress>>

(* lines 612-618 of concurrencyTestRange: the sync() calls made by the *)
(* loop over process.prange(), one after every index i with           *)
(* (i-process.startval)%process.total==0                              *)
RangeSyncs(startval, endval, total) ==
    Cardinality({i \in startval .. endval - 1 : (i - startval) % total = 0})

(* the number of sync() (or shareObject()) calls the target worker w *)
(* executes makes before it returns                                  *)
SyncCalls(w) ==
    IF jobs[wjob[w]].rounds = TestRange
    THEN RangeSyncs(wfields[w].startval, wfields[w].endval, wfields[w].total)
    ELSE jobs[wjob[w]].rounds

(* the value a target returns: (job, index, startval, endval) *)
TargetResult(w, kind) ==
    Result(kind, wjob[w], w, wfields[w].startval, wfields[w].endval)

(* the number of indices of the sub-range of worker w *)
RangeLen(w) == wfields[w].endval - wfields[w].startval

(* lines 273 and 285-289: self.setProgress(count,True) at the end of *)
(* prange(), which only a target that loops over prange() reaches    *)
FinalProgress(w) ==
    IF jobs[wjob[w]].rounds = TestRange
    THEN [progress EXCEPT ![w] = RangeLen(w)]
    ELSE progress

(* lines 270 and 281-289: an update of the progress cell inside the *)
(* loop over prange(), made when the last one is 0.2 s old          *)
SetProgress(w) ==
    /\ w \in Procs
    /\ wpc[w] = "body"
    /\ jobs[wjob[w]].rounds = TestRange
    /\ \E count \in 1 .. RangeLen(w) :
          /\ count # progress[w]
          /\ progress' = [progress EXCEPT ![w] = count]
    /\ UNCHANGED <<svars, bvars, wvars, cvars, dvars, hvars>>
    /\ UNCHANGED ovars
    /\ UNCHANGED <<reader, hMethodErr, reducer>>

TargetReturnSilent(w) ==
    /\ w \in Procs
    /\ wpc[w] = "body"
    /\ wround[w] = SyncCalls(w)
    /\ wpc' = [wpc EXCEPT ![w] = "idle"]
    /\ progress' = FinalProgress(w)
    /\ UNCHANGED <<curEvent, wfields, wjob, wround, dowait, send, rrecv>>
    /\ UNCHANGED <<svars, bvars, dvars, hvars>>
    /\ UNCHANGED ovars
    /\ UNCHANGED <<reader, hMethodErr, reducer>>

(* lines 304-305: the target returns and the result is sent; the *)
(* loop over prange() has ended with its forced progress update  *)
TargetReturn(w) ==
    /\ w \in Procs
    /\ wpc[w] = "body"
    /\ wround[w] = SyncCalls(w)
    /\ rrecv' = [rrecv EXCEPT ![w] = Append(@, TargetResult(w, "none"))]
    /\ wpc' = [wpc EXCEPT ![w] = "idle"]
    /\ progress' = FinalProgress(w)
    /\ UNCHANGED <<curEvent, wfields, wjob, wround, dowait, send>>
    /\ UNCHANGED <<svars, bvars, dvars, hvars>>
    /\ UNCHANGED ovars
    /\ UNCHANGED <<reader, hMethodErr, reducer>>

(* lines 306-309: the exception e is sent as the result; the sentinel *)
(* of lines 310-311 is written afterwards                             *)
SendException(w, kind) ==
    /\ rrecv' = [rrecv EXCEPT ![w] = Append(@, TargetResult(w, kind))]
    /\ wpc' = [wpc EXCEPT ![w] = "sentinel"]

(* the target raises between two sync() calls *)
TargetRaise(w) ==
    /\ w \in Procs
    /\ wpc[w] = "body"
    /\ Cardinality(hRaised) < MaxFailures
    /\ hRaised' = hRaised \cup {<<wjob[w], w>>}
    /\ SendException(w, "target")
    /\ UNCHANGED <<curEvent, wfields, wjob, wround, dowait, send>>
    /\ UNCHANGED <<svars, bvars, dvars, hStarted, hPollErr>>
    /\ UNCHANGED ovars
    /\ UNCHANGED <<reader, hMethodErr, reducer, progress>>

SetSentinelExit(w) ==
    /\ w \in Procs
    /\ wpc[w] = "sentinel"
    /\ syncLock = -1
    /\ syncCounter' = - wfields[w].total - 1
    /\ wpc' = [wpc EXCEPT ![w] = "exited"]
    /\ UNCHANGED <<syncLock, syncEvents>>
    /\ UNCHANGED <<curEvent, wfields, wjob, wround, dowait>>
    /\ UNCHANGED <<svars, cvars, dvars, hvars>>
    /\ UNCHANGED ovars
    /\ UNCHANGED <<reader, hMethodErr, reducer, progress>>

(* lines 310-311: with self.syncLock: self.syncCounter.value=-self.total-1 *)
SetSentinel(w) ==
    /\ w \in Procs
    /\ wpc[w] = "sentinel"
    /\ syncLock = -1
    /\ syncCounter' = - wfields[w].total - 1
    /\ wpc' = [wpc EXCEPT ![w] = "idle"]
    /\ UNCHANGED <<syncLock, syncEvents>>
    /\ UNCHANGED <<curEvent, wfields, wjob, wround, dowait>>
    /\ UNCHANGED <<svars, cvars, dvars, hvars>>
    /\ UNCHANGED ovars
    /\ UNCHANGED <<reader, hMethodErr, reducer, progress>>

(* ------------------------------------------------------------------ *)
(* Object sharing: AlgorithmProcess.shareObject, MethodProxy,         *)
(* ObjectServer.runProxy and ObjectSharer                             *)
(* ------------------------------------------------------------------ *)

(* the object worker w shares under the name "x": its index, tagged  *)
(* with the job and the call that published it                       *)
SharedObject(w) == [val |-> w, job |-> wjob[w], round |-> wround[w]]

(* line 66: the message (name, args, kwargs) of a proxy method call *)
ProxyRequest(method, w) ==
    [name |-> method, index |-> w, obj |-> SharedObject(w)]

(* lines 136-140: the response to request m, the value the method *)
(* returned or the exception it raised                            *)
ProxyResponse(kind, m, val) ==
    [exc |-> kind, name |-> m.name, job |-> m.obj.job, val |-> val]

(* ObjectSharer.shareObject(index, name, obj) *)
sharerShareObject(map, index, obj) ==
    [i \in DOMAIN map \cup {index} |-> IF i = index THEN obj ELSE map[i]]

(* ObjectSharer.getObjects(name, excludeIndex) *)
sharerGetObjects(map, excludeIndex) ==
    [i \in DOMAIN map \ {excludeIndex} |-> map[i]]

(* lines 202-205 and 66: shareObject() sends the request to publish *)
SharePublish(w) ==
    /\ w \in Procs
    /\ wpc[w] = "body"
    /\ jobs[wjob[w]].share
    /\ wround[w] < SyncCalls(w)
    /\ proxyReq' = [proxyReq EXCEPT ![w] =
                        Append(@, ProxyRequest("shareObject", w))]
    /\ wpc' = [wpc EXCEPT ![w] = "publish"]
    /\ UNCHANGED <<curEvent, wfields, wjob, wround, dowait>>
    /\ UNCHANGED <<objmap, sharerLock, proxyResp, ppc, wshared>>
    /\ UNCHANGED <<svars, bvars, cvars, dvars, hvars>>
    /\ UNCHANGED <<reader, hMethodErr, reducer, progress>>

(* lines 67-71: a response has arrived in the call of the publish *)
(* request and is not an exception                                *)
SharePublished(w) ==
    /\ w \in Procs
    /\ wpc[w] = "publish"
    /\ proxyResp[w] # <<>>
    /\ Head(proxyResp[w]).exc = "none"
    /\ proxyResp' = [proxyResp EXCEPT ![w] = Tail(@)]
    /\ wpc' = [wpc EXCEPT ![w] = "published"]
    /\ UNCHANGED <<curEvent, wfields, wjob, wround, dowait>>
    /\ UNCHANGED <<objmap, sharerLock, proxyReq, ppc, wshared>>
    /\ UNCHANGED <<svars, bvars, cvars, dvars, hvars>>
    /\ UNCHANGED <<reader, hMethodErr, reducer, progress>>

(* lines 67-71 and 209: a response has arrived in the call of     *)
(* getObjects and is not an exception; shareObject() returns it   *)
ShareReturn(w) ==
    /\ w \in Procs
    /\ wpc[w] = "lookup"
    /\ proxyResp[w] # <<>>
    /\ Head(proxyResp[w]).exc = "none"
    /\ wshared' = [wshared EXCEPT ![w] = Head(proxyResp[w]).val]
    /\ proxyResp' = [proxyResp EXCEPT ![w] = Tail(@)]
    /\ wround' = [wround EXCEPT ![w] = @ + 1]
    /\ wpc' = [wpc EXCEPT ![w] = "body"]
    /\ UNCHANGED <<curEvent, wfields, wjob, dowait>>
    /\ UNCHANGED <<objmap, sharerLock, proxyReq, ppc>>
    /\ UNCHANGED <<svars, bvars, cvars, dvars, hvars>>
    /\ UNCHANGED <<reader, hMethodErr, reducer, progress>>

(* lines 67-70: the response that has arrived is an exception and is *)
(* raised in the target, which ends in the handler of run()          *)
ProxyReraise(w) ==
    /\ w \in Procs
    /\ wpc[w] \in {"publish", "lookup"}
    /\ proxyResp[w] # <<>>
    /\ Head(proxyResp[w]).exc # "none"
    /\ proxyResp' = [proxyResp EXCEPT ![w] = Tail(@)]
    /\ SendException(w, Head(proxyResp[w]).exc)
    /\ hRaised' = hRaised \cup {<<wjob[w], w>>}
    /\ UNCHANGED <<curEvent, wfields, wjob, wround, dowait, send>>
    /\ UNCHANGED <<objmap, sharerLock, proxyReq, ppc, wshared>>
    /\ UNCHANGED <<svars, bvars, dvars, hStarted, hPollErr>>
    /\ UNCHANGED <<reader, hMethodErr, reducer, progress>>

(* lines 67 and 72-73: recv.poll(10) ends with no response in the *)
(* pipe and the call raises IOError                               *)
ProxyTimeout(w) ==
    /\ w \in Procs
    /\ wpc[w] \in {"publish", "lookup"}
    /\ proxyResp[w] = <<>>
    /\ Cardinality(hRaised) < MaxFailures
    /\ SendException(w, "noresponse")
    /\ hRaised' = hRaised \cup {<<wjob[w], w>>}
    /\ UNCHANGED <<curEvent, wfields, wjob, wround, dowait, send>>
    /\ UNCHANGED ovars
    /\ UNCHANGED <<svars, bvars, dvars, hStarted, hPollErr>>
    /\ UNCHANGED <<reader, hMethodErr, reducer, progress>>

(* lines 130-133: a request is waiting; take the lock of the registry. *)
(* The thread runs while doRun is set, which stop() clears before it   *)
(* sets stopEvent                                                      *)
ProxyLock(p) ==
    /\ p \in Procs
    /\ parentAlive
    /\ ~stopEvent
    /\ ppc[p] = "poll"
    /\ proxyReq[p] # <<>>
    /\ sharerLock = -1
    /\ sharerLock' = p
    /\ ppc' = [ppc EXCEPT ![p] = "call"]
    /\ UNCHANGED <<objmap, proxyReq, proxyResp, wshared>>
    /\ UNCHANGED <<svars, bvars, wvars, cvars, dvars, hvars>>
    /\ UNCHANGED <<reader, hMethodErr, reducer, progress>>

(* lines 135-140: receive the request, call the method of the  *)
(* registry, send the result and release the lock              *)
ProxyCall(p) ==
    /\ p \in Procs
    /\ parentAlive
    /\ ppc[p] = "call"
    /\ LET m == Head(proxyReq[p])
       IN IF m.name = "shareObject"
          THEN /\ objmap' = sharerShareObject(objmap, m.index, m.obj)
               /\ proxyResp' = [proxyResp EXCEPT ![p] =
                      Append(@, ProxyResponse("none", m, EmptyMap))]
          ELSE /\ proxyResp' = [proxyResp EXCEPT ![p] =
                      Append(@, ProxyResponse("none", m,
                                              sharerGetObjects(objmap, m.index)))]
               /\ UNCHANGED objmap
    /\ proxyReq' = [proxyReq EXCEPT ![p] = Tail(@)]
    /\ sharerLock' = -1
    /\ ppc' = [ppc EXCEPT ![p] = "poll"]
    /\ UNCHANGED wshared
    /\ UNCHANGED <<svars, bvars, wvars, cvars, dvars, hvars>>
    /\ UNCHANGED <<reader, hMethodErr, reducer, progress>>

(* lines 135-140: the method raises; the exception is the result that *)
(* is sent, and the lock is released                                  *)
ProxyCallRaise(p) ==
    /\ p \in Procs
    /\ parentAlive
    /\ ppc[p] = "call"
    /\ Cardinality(hMethodErr) < MaxMethodErrors
    /\ LET m == Head(proxyReq[p])
       IN /\ proxyResp' = [proxyResp EXCEPT ![p] =
                 Append(@, ProxyResponse("method", m, EmptyMap))]
          /\ hMethodErr' = hMethodErr \cup {<<m.obj.job, p, m.name>>}
    /\ proxyReq' = [proxyReq EXCEPT ![p] = Tail(@)]
    /\ sharerLock' = -1
    /\ ppc' = [ppc EXCEPT ![p] = "poll"]
    /\ UNCHANGED <<objmap, wshared>>
    /\ UNCHANGED <<svars, bvars, wvars, cvars, dvars, hvars>>
    /\ UNCHANGED <<reader, reducer, progress>>

(* ------------------------------------------------------------------ *)
(* AlgorithmProcess.sync, the barrier                                 *)
(* ------------------------------------------------------------------ *)

SyncEnterNoCheck(w) ==
    /\ w \in Procs
    /\ \/ /\ wpc[w] = "body"
          /\ ~jobs[wjob[w]].share
          /\ wround[w] < SyncCalls(w)
       \/ wpc[w] = "published"
    /\ syncLock = -1
    /\ syncLock' = w
    /\ syncEvents' = IF syncCounter = 0
                     THEN [syncEvents EXCEPT ![curEvent[w]] = FALSE]
                     ELSE syncEvents
    /\ wpc' = [wpc EXCEPT ![w] = "incr"]
    /\ UNCHANGED dowait
    /\ UNCHANGED <<syncCounter, curEvent, wfields, wjob, wround>>
    /\ UNCHANGED <<svars, cvars, dvars, hvars>>
    /\ UNCHANGED ovars
    /\ UNCHANGED <<reader, hMethodErr, reducer, progress>>

(* lines 231-237: take syncLock; a negative counter skips the barrier, *)
(* the first arrival clears the event.  sync() is called by the target *)
(* or, at line 208, by shareObject()                                   *)
SyncEnter(w) ==
    /\ w \in Procs
    /\ \/ /\ wpc[w] = "body"
          /\ ~jobs[wjob[w]].share
          /\ wround[w] < SyncCalls(w)
       \/ wpc[w] = "published"
    /\ syncLock = -1
    /\ IF syncCounter < 0
       THEN /\ dowait' = [dowait EXCEPT ![w] = FALSE]
            /\ wpc' = [wpc EXCEPT ![w] = "swap"]
            /\ UNCHANGED <<syncLock, syncEvents>>
       ELSE /\ syncLock' = w
            /\ syncEvents' = IF syncCounter = 0
                             THEN [syncEvents EXCEPT ![curEvent[w]] = FALSE]
                             ELSE syncEvents
            /\ wpc' = [wpc EXCEPT ![w] = "incr"]
            /\ UNCHANGED dowait
    /\ UNCHANGED <<syncCounter, curEvent, wfields, wjob, wround>>
    /\ UNCHANGED <<svars, cvars, dvars, hvars>>
    /\ UNCHANGED ovars
    /\ UNCHANGED <<reader, hMethodErr, reducer, progress>>

(* line 240: dowait=self.syncCounter.value<self.total *)
MustWait(counter, total) == counter < total

SyncIncrNoReset(w) ==
    /\ w \in Procs
    /\ wpc[w] = "incr"
    /\ syncLock = w
    /\ LET c == syncCounter + 1
           wait == MustWait(c, wfields[w].total)
       IN /\ dowait' = [dowait EXCEPT ![w] = wait]
          /\ syncCounter' = c
          /\ syncEvents' = IF wait THEN syncEvents
                           ELSE [syncEvents EXCEPT ![curEvent[w]] = TRUE]
          /\ wpc' = [wpc EXCEPT ![w] = IF wait THEN "wait" ELSE "swap"]
    /\ syncLock' = -1
    /\ UNCHANGED <<curEvent, wfields, wjob, wround>>
    /\ UNCHANGED <<svars, cvars, dvars, hvars>>
    /\ UNCHANGED ovars
    /\ UNCHANGED <<reader, hMethodErr, reducer, progress>>

(* lines 239-243: count the arrival; the last arrival sets the event, *)
(* resets the counter and skips the wait loop; syncLock is released   *)
SyncIncr(w) ==
    /\ w \in Procs
    /\ wpc[w] = "incr"
    /\ syncLock = w
    /\ LET c == syncCounter + 1
           wait == MustWait(c, wfields[w].total)
       IN /\ dowait' = [dowait EXCEPT ![w] = wait]
          /\ syncCounter' = IF wait THEN c ELSE 0
          /\ syncEvents' = IF wait THEN syncEvents
                           ELSE [syncEvents EXCEPT ![curEvent[w]] = TRUE]
          /\ wpc' = [wpc EXCEPT ![w] = IF wait THEN "wait" ELSE "swap"]
    /\ syncLock' = -1
    /\ UNCHANGED <<curEvent, wfields, wjob, wround>>
    /\ UNCHANGED <<svars, cvars, dvars, hvars>>
    /\ UNCHANGED ovars
    /\ UNCHANGED <<reader, hMethodErr, reducer, progress>>

SyncWaitNoStop(w) ==
    /\ w \in Procs
    /\ wpc[w] = "wait"
    /\ \/ syncEvents[curEvent[w]]
       \/ syncCounter < 0
    /\ dowait' = [dowait EXCEPT ![w] = FALSE]
    /\ wpc' = [wpc EXCEPT ![w] = "swap"]
    /\ UNCHANGED <<curEvent, wfields, wjob, wround>>
    /\ UNCHANGED <<svars, bvars, cvars, dvars, hvars>>
    /\ UNCHANGED ovars
    /\ UNCHANGED <<reader, hMethodErr, reducer, progress>>

(* lines 247-248: the wait loop is left when the event is set, the   *)
(* counter is negative or _continueRunning() is false                *)
SyncWait(w) ==
    /\ w \in Procs
    /\ wpc[w] = "wait"
    /\ \/ ~continueRunning
       \/ syncEvents[curEvent[w]]
       \/ syncCounter < 0
    /\ dowait' = [dowait EXCEPT ![w] = FALSE]
    /\ wpc' = [wpc EXCEPT ![w] = "swap"]
    /\ UNCHANGED <<curEvent, wfields, wjob, wround>>
    /\ UNCHANGED <<svars, bvars, cvars, dvars, hvars>>
    /\ UNCHANGED ovars
    /\ UNCHANGED <<reader, hMethodErr, reducer, progress>>

(* line 253: the event self.syncEvent refers to after the swap *)
SwapEvent(e) == 3 - e

(* lines 253-259: swap the events, then raise or return; back in      *)
(* shareObject() the return is followed by self.getObjects(name) of   *)
(* line 209, whose proxy call sends its request (line 66)             *)
SyncExit(w) ==
    /\ w \in Procs
    /\ wpc[w] = "swap"
    /\ curEvent' = [curEvent EXCEPT ![w] = SwapEvent(@)]
    /\ IF syncCounter < 0
       THEN /\ SendException(w, "sibling")
            /\ UNCHANGED <<wround, proxyReq>>
       ELSE IF ~continueRunning
       THEN /\ SendException(w, "parent")
            /\ UNCHANGED <<wround, proxyReq>>
       ELSE IF jobs[wjob[w]].share
       THEN /\ proxyReq' = [proxyReq EXCEPT ![w] =
                                Append(@, ProxyRequest("getObjects", w))]
            /\ wpc' = [wpc EXCEPT ![w] = "lookup"]
            /\ UNCHANGED <<rrecv, wround>>
       ELSE /\ wround' = [wround EXCEPT ![w] = @ + 1]
            /\ wpc' = [wpc EXCEPT ![w] = "body"]
            /\ UNCHANGED <<rrecv, proxyReq>>
    /\ UNCHANGED <<wfields, wjob, dowait, send>>
    /\ UNCHANGED <<objmap, sharerLock, proxyResp, ppc, wshared>>
    /\ UNCHANGED <<svars, bvars, dvars, hvars>>
    /\ UNCHANGED <<reader, hMethodErr, reducer, progress>>

(* ------------------------------------------------------------------ *)
(* Local mode: the target run in the dispatch thread                  *)
(* ------------------------------------------------------------------ *)

(* the value None of a constructor argument; an event is given as its *)
(* position in syncEvents, the sharer proxy as 1                      *)
None == 0

localprocShared ==
    [index |-> 0, total |-> 1, syncEvent |-> 1, sharer |-> 1]

(* line 441: localproc=AlgorithmProcess(0,1,None,None,None,None,None,task,None,0) *)
localproc ==
    [index |-> 0, total |-> 1, syncEvent |-> None, sharer |-> None]

(* lines 231-259: sync() called by process p while no other process is *)
(* inside sync(), on the barrier state st; the call returns, raises or *)
(* stays in the wait loop                                              *)
syncAlone(p, st) ==
    IF p.syncEvent = None THEN st
    ELSE IF st.counter < 0 THEN [st EXCEPT !.out = "raise"]
    ELSE LET c == st.counter + 1
             cleared == IF st.counter = 0
                        THEN [st.events EXCEPT ![p.syncEvent] = FALSE]
                        ELSE st.events
         IN IF MustWait(c, p.total)
            THEN [st EXCEPT !.counter = c, !.events = cleared, !.out = "block"]
            ELSE [st EXCEPT !.counter = 0,
                            !.events = [cleared EXCEPT ![p.syncEvent] = TRUE]]

(* lines 202-209: shareObject(name, obj) called by process p under the *)
(* same condition                                                      *)
shareObjectAlone(p, obj, st) ==
    IF p.total = 1 \/ p.sharer = None
    THEN [st EXCEPT !.ret = EmptyMap]
    ELSE LET published ==
                 [st EXCEPT !.objmap = sharerShareObject(@, p.index, obj)]
             synced == syncAlone(p, published)
         IN IF synced.out = "return"
            THEN [synced EXCEPT !.ret = sharerGetObjects(synced.objmap, p.index)]
            ELSE synced

(* the sync() or shareObject() calls the target of job j makes on the *)
(* local process, which has the range [0,valrange) and total 1        *)
LocalCalls(j) ==
    IF jobs[j].rounds = TestRange
    THEN RangeSyncs(0, jobs[j].valrange, 1)
    ELSE jobs[j].rounds

(* line 444: the target of job j run on process p, n calls to go *)
RECURSIVE RunLocal(_, _, _, _)
RunLocal(p, j, n, st) ==
    IF n = 0 \/ st.out # "return" THEN st
    ELSE RunLocal(p, j, n - 1,
                  IF jobs[j].share
                  THEN shareObjectAlone(p, [val |-> p.index, job |-> j,
                                            round |-> LocalCalls(j) - n], st)
                  ELSE syncAlone(p, st))

(* lines 439-450: run the target in the dispatch thread on the local  *)
(* process with range [0,valrange); the step is the whole run of the  *)
(* target, which a target that stays in sync() never completes        *)
DispLocal ==
    /\ parentAlive
    /\ dpc = "local"
    /\ LET st == RunLocal(localproc, djob, LocalCalls(djob),
                          [counter |-> syncCounter, events |-> syncEvents,
                           objmap |-> objmap, ret |-> EmptyMap, out |-> "return"])
       IN /\ st.out # "block"
          /\ syncCounter' = st.counter
          /\ syncEvents' = st.events
          /\ objmap' = st.objmap
          /\ \E raises \in BOOLEAN :
                /\ raises => Cardinality(hRaised) < MaxFailures
                /\ hRaised' = IF raises THEN hRaised \cup {<<djob, 0>>} ELSE hRaised
                /\ future' = [future EXCEPT ![djob] = setObject(@,
                      (0 :> Result(IF raises THEN "target"
                                   ELSE IF st.out = "raise" THEN "sibling"
                                   ELSE "none",
                                   djob, 0, 0, jobs[djob].valrange)))]
    /\ hStarted' = hStarted \cup {djob}
    /\ dpc' = "loop"
    /\ UNCHANGED <<djob, numprocs, di, collected>>
    /\ UNCHANGED <<realnumprocs, jobs, jobqueue, stopEvent, parentAlive>>
    /\ UNCHANGED <<syncLock, wvars, cvars, hPollErr>>
    /\ UNCHANGED <<sharerLock, proxyReq, proxyResp, ppc, wshared>>
    /\ UNCHANGED <<reader, hMethodErr, reducer, progress>>

(* ------------------------------------------------------------------ *)
(* Specifications                                                     *)
(* ------------------------------------------------------------------ *)

Worker(w) ==
    \/ WorkerRecv(w)
    \/ TargetReturn(w)
    \/ SyncEnter(w)
    \/ SyncIncr(w)
    \/ SyncWait(w)
    \/ SyncExit(w)

Dispatcher ==
    \/ DispLoop
    \/ DispGet
    \/ DispLocal
    \/ DispReset
    \/ DispSend
    \/ DispPoll
    \/ DispRecv
    \/ DispSetResult

(* a worker in shareObject() and the proxy thread that serves it *)
Sharing(w) ==
    \/ SharePublish(w)
    \/ SharePublished(w)
    \/ ShareReturn(w)
    \/ ProxyLock(w)
    \/ ProxyCall(w)

(* operation in which no target raises and no poll() or recv() raises *)
NextBarrier ==
    \/ \E job \in BarrierJobType : callProcessFunc(job)
    \/ Dispatcher
    \/ \E w \in WorkerIds : Worker(w)

(* operation with raising targets and a raising poll() or recv() *)
Next ==
    \/ \E job \in JobType : callProcessFunc(job)
    \/ Dispatcher
    \/ \E w \in WorkerIds : Worker(w)
    \/ DispPollError
    \/ \E w \in WorkerIds : TargetRaise(w)
    \/ \E w \in WorkerIds : SetSentinel(w)

(* operation as under Next with jobs of any value range *)
NextAnyRange ==
    \/ \E job \in AnyRangeJobType : callProcessFunc(job)
    \/ Dispatcher
    \/ \E w \in WorkerIds : Worker(w)
    \/ DispPollError
    \/ \E w \in WorkerIds : TargetRaise(w)
    \/ \E w \in WorkerIds : SetSentinel(w)

(* operation with shutdown and loss of the parent process, in which *)
(* no target raises of its own and no poll() or recv() raises       *)
NextStop ==
    \/ \E job \in JobType : callProcessFunc(job)
    \/ Dispatcher
    \/ \E w \in WorkerIds : Worker(w)
    \/ \E w \in WorkerIds : SetSentinel(w)
    \/ stop
    \/ ParentExit
    \/ \E w \in WorkerIds : WorkerExit(w)

(* the docstring example: targets return at once, nothing raises *)
NextExample ==
    \/ \E job \in ExampleJobType : callProcessFunc(job)
    \/ Dispatcher
    \/ \E w \in ExampleIds : WorkerRecv(w)
    \/ \E w \in ExampleIds : TargetReturn(w)

(* operation as under Next with targets that share an object *)
NextShare ==
    \/ \E job \in ShareJobType : callProcessFunc(job)
    \/ Dispatcher
    \/ \E w \in WorkerIds : Worker(w)
    \/ \E w \in WorkerIds : Sharing(w)
    \/ DispPollError
    \/ \E w \in WorkerIds : TargetRaise(w)
    \/ \E w \in WorkerIds : SetSentinel(w)

(* operation with shutdown and loss of the parent process *)
NextShutdown ==
    \/ Next
    \/ stop
    \/ ParentExit
    \/ \E w \in WorkerIds : WorkerExit(w)

(* the dispatch of jobs up to the end of the send loop *)
NextPartition ==
    \/ \E job \in PartitionJobType : callProcessFunc(job)
    \/ DispLoop
    \/ DispGet
    \/ DispLocal
    \/ DispReset
    \/ DispSend

(* the dispatch of jobs of any requested count up to the end of the *)
(* send loop                                                       *)
NextCount ==
    \/ \E job \in CountJobType : callProcessFunc(job)
    \/ DispLoop
    \/ DispGet
    \/ DispLocal
    \/ DispReset
    \/ DispSend

(* the dispatch of jobs with list arguments up to the end of the send *)
(* loop                                                              *)
NextArgs ==
    \/ \E job \in ArgsJobType : callProcessFunc(job)
    \/ DispLoop
    \/ DispGet
    \/ DispLocal
    \/ DispReset
    \/ DispSend

(* operation in which clients read the Futures with a finite timeout; *)
(* no worker's target raises and no poll() or recv() raises           *)
NextRead ==
    \/ \E job \in JobType : callProcessFunc(job)
    \/ Dispatcher
    \/ \E w \in WorkerIds : Worker(w)
    \/ \E j \in 1 .. MaxJobs : FutureCall(j)
    \/ \E j \in 1 .. MaxJobs : FutureTimeout(j)
    \/ \E j \in 1 .. MaxJobs : FutureReturn(j)

(* operation as under Next with jobs submitted through the wrapper of *)
(* concurrent()                                                       *)
NextWrapper ==
    \/ \E job \in JobType : concurrent_wrapper(job)
    \/ Dispatcher
    \/ \E w \in WorkerIds : Worker(w)
    \/ DispPollError
    \/ \E w \in WorkerIds : TargetRaise(w)
    \/ \E w \in WorkerIds : SetSentinel(w)
    \/ \E j \in 1 .. MaxJobs : FutureReturn(j)

(* operation with targets that share an object, proxied method calls *)
(* that raise and proxy calls that get no response in time           *)
NextProxy ==
    \/ \E job \in ShareJobType : callProcessFunc(job)
    \/ Dispatcher
    \/ \E w \in WorkerIds : Worker(w)
    \/ \E w \in WorkerIds : Sharing(w)
    \/ \E w \in WorkerIds : ProxyCallRaise(w)
    \/ \E w \in WorkerIds : ProxyReraise(w)
    \/ \E w \in WorkerIds : ProxyTimeout(w)
    \/ \E w \in WorkerIds : SetSentinel(w)

(* operation with targets that exchange an object twice under one *)
(* name; nothing raises                                            *)
NextExchange ==
    \/ \E job \in ExchangeJobType : callProcessFunc(job)
    \/ Dispatcher
    \/ \E w \in WorkerIds : Worker(w)
    \/ \E w \in WorkerIds : Sharing(w)

(* operation with the target concurrencyTestRange; nothing raises *)
NextTestRange ==
    \/ \E job \in TestRangeJobType : callProcessFunc(job)
    \/ Dispatcher
    \/ \E w \in WorkerIds : Worker(w)

(* operation with jobs of any value range in which no worker's target *)
(* raises and no poll() or recv() raises                              *)
NextRangeRun ==
    \/ \E job \in AnyRangeJobType : callProcessFunc(job)
    \/ Dispatcher
    \/ \E w \in WorkerIds : Worker(w)

(* operation with targets that leave entries in the registry, values *)
(* in the progress cells and the failure sentinel in the counter     *)
NextSetup ==
    \/ \E job \in SetupJobType : callProcessFunc(job)
    \/ Dispatcher
    \/ \E w \in WorkerIds : Worker(w)
    \/ \E w \in WorkerIds : Sharing(w)
    \/ \E w \in WorkerIds : SetProgress(w)
    \/ \E w \in WorkerIds : TargetRaise(w)
    \/ \E w \in WorkerIds : SetSentinel(w)

(* operation as under Next with jobs that use a part of the pool *)
NextPartPool ==
    \/ \E job \in PartPoolJobType : callProcessFunc(job)
    \/ Dispatcher
    \/ \E w \in WorkerIds : Worker(w)
    \/ DispPollError
    \/ \E w \in WorkerIds : TargetRaise(w)
    \/ \E w \in WorkerIds : SetSentinel(w)

(* the reducers called on result maps *)
NextReduce ==
    \/ CallCheckResultMap
    \/ CallListResults
    \/ CallSumResultMap

(* operation with raising targets in which no poll() or recv() raises *)
NextRaise ==
    \/ \E job \in JobType : callProcessFunc(job)
    \/ Dispatcher
    \/ \E w \in WorkerIds : Worker(w)
    \/ \E w \in WorkerIds : TargetRaise(w)
    \/ \E w \in WorkerIds : SetSentinel(w)

Spec == Init /\ [][Next]_vars
SpecPartition == InitPartition /\ [][NextPartition]_vars

SpecBarrier == InitBarrier /\ [][NextBarrier]_vars

SpecShutdown == Init /\ [][NextShutdown]_vars

SpecShare == Init /\ [][NextShare]_vars

SpecAnyRange == Init /\ [][NextAnyRange]_vars

SpecExample == InitExample /\ [][NextExample]_vars

SpecCount == InitCount /\ [][NextCount]_vars

SpecArgs == InitCount /\ [][NextArgs]_vars

(* every worker process and the dispatch thread keep being scheduled; *)
(* a target that raises and a poll() that raises are never forced     *)
Fairness == WF_vars(Dispatcher) /\ \A w \in WorkerIds : WF_vars(Worker(w))

FairBarrier == SpecBarrier /\ Fairness

(* a worker that has sent an exception goes on to write the sentinel *)
FairSpec ==
    Spec /\ Fairness /\ \A w \in WorkerIds : WF_vars(SetSentinel(w))

SpecStop == Init /\ [][NextStop]_vars

(* every worker process keeps running its loop and its handler *)
FairStop ==
    /\ SpecStop
    /\ Fairness
    /\ \A w \in WorkerIds : WF_vars(SetSentinel(w)) /\ WF_vars(WorkerExit(w))

SpecRead == Init /\ [][NextRead]_vars

SpecWrapper == Init /\ [][NextWrapper]_vars

SpecProxy == Init /\ [][NextProxy]_vars

SpecRaise == Init /\ [][NextRaise]_vars

SpecReduce == InitReduce /\ [][NextReduce]_vars

SpecExchange == Init /\ [][NextExchange]_vars

SpecPartPool == InitBarrier /\ [][NextPartPool]_vars

SpecSetup == Init /\ [][NextSetup]_vars

SpecRangeRun == Init /\ [][NextRangeRun]_vars

FairRangeRun == SpecRangeRun /\ Fairness

SpecTestRange == InitCount /\ [][NextTestRange]_vars

FairTestRange == SpecTestRange /\ Fairness

(* a blocked read ends: by the timeout or by the Future being set *)
FairRead ==
    /\ SpecRead
    /\ Fairness
    /\ \A j \in 1 .. MaxJobs : WF_vars(FutureTimeout(j)) /\ WF_vars(FutureReturn(j))

(* ------------------------------------------------------------------ *)
(* Vocabulary of the properties                                       *)
(* ------------------------------------------------------------------ *)

(* the resolved worker count of a submitted job *)
JobK(j) == ResolveNumProcs(jobs[j].valrange, jobs[j].numprocs, realnumprocs)
MultiWorker(j) == JobK(j) # 1 /\ Procs # {}
Submitted == 1 .. Len(jobs)

InSync(w) == wpc[w] \in {"incr", "wait", "swap"}
InTarget(w) ==
    wpc[w] \in {"body", "incr", "wait", "swap", "publish", "published", "lookup"}
Executing(w, j) == InTarget(w) /\ wjob[w] = j

(* the execution message of job j has not reached worker i yet *)
MessagePending(i, j) ==
    \/ \E n \in DOMAIN send[i] : send[i][n].job = j
    \/ djob = j /\ (dpc = "reset" \/ (dpc = "send" /\ di <= i))
    \/ \E n \in DOMAIN jobqueue : jobqueue[n] = j

(* number of sync() calls worker i has entered in job j, when no target *)
(* of job j raises                                                      *)
SyncsEntered(i, j) ==
    IF MessagePending(i, j) THEN 0
    ELSE IF Executing(i, j) THEN wround[i] + (IF InSync(i) THEN 1 ELSE 0)
    ELSE jobs[j].rounds

NoFault == hRaised = {} /\ hPollErr = {} /\ ~stopEvent /\ parentAlive

(* the resolution of job A precedes the start of every later job B *)
StartedInOrder ==
    \A b \in hStarted : \A a \in 1 .. b - 1 : future[a].sets >= 1

(* C5: jobs are started in submission order.  For two jobs A submitted *)
(* before B, A's Future has been set whenever an execution message of  *)
(* B has been sent or B's target has been run locally.                 *)
C5_SubmissionOrder == StartedInOrder

(* two jobs were submitted and the second one has been started *)
C5_Witness == 2 \in hStarted /\ future[1].sets = 1

(* C1: barrier safety.  While no target has raised, no poll has raised *)
(* and the pool is running, a worker that has returned from its r-th   *)
(* sync() call of a job finds that every one of the job's k workers    *)
(* has entered its r-th sync() call of that job.                       *)
C1_BarrierSafety ==
    NoFault =>
        \A w \in Procs :
            InTarget(w) =>
                \A i \in 0 .. wfields[w].total - 1 :
                    SyncsEntered(i, wjob[w]) >= wround[w]

(* C2: barrier liveness.  Under fair scheduling, with no raising target *)
(* and no shutdown, every sync() call a worker has entered eventually  *)
(* returns.  (The second half of the claim, that no round is entered   *)
(* early, is the invariant stated for C1.)                             *)
C2_BarrierLiveness ==
    \A w \in WorkerIds :
        (w \in Procs /\ InSync(w)) ~> (w \in Procs /\ ~InSync(w))

(* worker i waits in the loop of sync() and has not been released *)
Blocked(i) == wpc[i] = "wait" /\ ~syncEvents[curEvent[i]]

(* the target of a sibling of worker i has raised in job j *)
SiblingRaised(i, j) == \E f \in Procs : f # i /\ <<j, f>> \in hRaised

(* worker i has just raised the sibling-failure exception in job j *)
RaisedSiblingFailure(i, j) ==
    /\ wpc[i] = "sentinel"
    /\ wjob[i] = j
    /\ rrecv[i] # <<>>
    /\ rrecv[i][Len(rrecv[i])].exc = "sibling"
    /\ rrecv[i][Len(rrecv[i])].job = j

(* the Future of a multi-worker job holds, at the key of every worker *)
(* whose target raised, the exception of that worker                  *)
FailureInResultMap ==
    \A j \in Submitted :
        (future[j].sets > 0 /\ MultiWorker(j)) =>
            \A f \in Procs :
                <<j, f>> \in hRaised =>
                    /\ f \in DOMAIN future[j].obj
                    /\ future[j].obj[f].exc = "target"
                    /\ future[j].obj[f].job = j
                    /\ future[j].obj[f].index = f

(* C3: failure fan-out.  Under fair scheduling, a worker that is blocked *)
(* in the wait loop of sync() while the target of a sibling has raised  *)
(* in the same job eventually raises the sibling-failure exception.     *)
(* (The second half of the claim, the result map, is stated by          *)
(* FailureInResultMap.)                                                 *)
C3_FailureFanOut ==
    \A i \in WorkerIds : \A j \in 1 .. MaxJobs :
        (i \in Procs /\ Executing(i, j) /\ Blocked(i) /\ SiblingRaised(i, j))
            ~> (i \in Procs /\ RaisedSiblingFailure(i, j))

(* the dispatch loop has taken job j from the queue and is done with it *)
Dequeued(j) == \A n \in DOMAIN jobqueue : jobqueue[n] # j
Active(j) == djob = j /\ dpc \in {"local", "reset", "send", "poll", "collect"}
Finished(j) == Dequeued(j) /\ ~Active(j)

(* C4: the Future of a job is set exactly once.  It is unset until the *)
(* dispatch loop is done with the job and has been set exactly once    *)
(* from then on, whether the job ran locally, on workers, or ended in  *)
(* the except clause of the polling block.                             *)
C4_FutureSetOnce ==
    \A j \in Submitted : future[j].sets = (IF Finished(j) THEN 1 ELSE 0)

(* one job has ended in the except clause and another one with a local *)
(* target that raised                                                  *)
C4_Witness ==
    \E a, b \in Submitted :
        /\ a \in hPollErr /\ Finished(a)
        /\ ~MultiWorker(b) /\ <<b, 0>> \in hRaised /\ Finished(b)

(* C6: at most one job is active.  Every worker that executes a target *)
(* executes the target of the job the dispatch loop is sending out or  *)
(* waiting on.                                                         *)
C6_OneActiveJob ==
    \A w \in Procs :
        InTarget(w) => (wjob[w] = djob /\ dpc \in {"send", "poll", "collect"})

(* worker i has sent its result of job j *)
HasSent(i, j) == ~MessagePending(i, j) /\ ~Executing(i, j)

(* the workers of a multi-worker job *)
Participants(j) == ProcSlice(JobK(j), realnumprocs)

(* C7: the Future of a multi-worker job is set to a map of worker    *)
(* results only after every participating worker has sent its result *)
(* of that job (a job ended by the except clause holds no worker     *)
(* result and is not constrained).                                   *)
C7_ResolvedAfterAllSent ==
    \A j \in Submitted :
        (future[j].sets > 0 /\ MultiWorker(j) /\ j \notin hPollErr) =>
            \A i \in Participants(j) : HasSent(i, j)

(* C8: the result map of a job resolved with k workers has the keys  *)
(* 0..k-1 and holds at key i what worker i returned or raised in     *)
(* that job (a job ended by the except clause holds no worker result *)
(* and is not constrained).                                          *)
C8_KeyedByIndex ==
    \A j \in Submitted :
        (future[j].sets > 0 /\ j \notin hPollErr) =>
            /\ DOMAIN future[j].obj =
                  (IF MultiWorker(j) THEN Participants(j) ELSE {0})
            /\ \A i \in DOMAIN future[j].obj :
                  /\ future[j].obj[i].job = j
                  /\ future[j].obj[i].index = i
                  /\ future[j].obj[i].exc \in {"none", "target", "sibling"}

(* every message of job j has been sent and none has been received *)
AllSent(j) ==
    /\ djob = j /\ dpc = "poll"
    /\ \A i \in Participants(j) : MessagePending(i, j)

(* the message of job j in the pipe of worker i *)
SubRange(i, j) ==
    LET n == CHOOSE n \in DOMAIN send[i] : send[i][n].job = j
    IN send[i][n]

SubLen(i, j) == SubRange(i, j).endval - SubRange(i, j).startval

(* C9: partition cover.  The sub-ranges sent to the workers 0..k-1 of  *)
(* a job of range N start at 0, end at N, each begins where the one    *)
(* before ends, and every index of [0,N) lies in exactly one of them;  *)
(* a job run locally gets the whole range [0,N).                       *)
C9_PartitionCover ==
    \A j \in Submitted :
        LET N == jobs[j].valrange
            k == JobK(j)
        IN /\ (MultiWorker(j) /\ AllSent(j)) =>
                /\ Participants(j) = 0 .. k - 1
                /\ SubRange(0, j).startval = 0
                /\ SubRange(k - 1, j).endval = N
                /\ \A i \in 0 .. k - 2 :
                      SubRange(i, j).endval = SubRange(i + 1, j).startval
                /\ \A x \in 0 .. N - 1 :
                      Cardinality({i \in 0 .. k - 1 :
                          /\ SubRange(i, j).startval <= x
                          /\ x < SubRange(i, j).endval}) = 1
           /\ (~MultiWorker(j) /\ future[j].sets > 0) =>
                /\ future[j].obj[0].startval = 0
                /\ future[j].obj[0].endval = N

(* seven values have been sent out to three workers *)
C9_Witness ==
    \E j \in Submitted :
        /\ AllSent(j) /\ JobK(j) = 3 /\ jobs[j].valrange = 7
        /\ SubRange(1, j).startval = 2 /\ SubRange(1, j).endval = 4

(* C10: partition balance.  The lengths of the sub-ranges sent to any *)
(* two workers of a job differ by at most 1.                          *)
C10_PartitionBalance ==
    \A j \in Submitted :
        (MultiWorker(j) /\ AllSent(j)) =>
            \A a, b \in Participants(j) : SubLen(a, j) - SubLen(b, j) <= 1

(* five values have been sent out to three workers, in unequal shares *)
C10_Witness ==
    \E j \in Submitted :
        /\ AllSent(j) /\ JobK(j) = 3 /\ jobs[j].valrange = 5
        /\ \E a, b \in Participants(j) : SubLen(a, j) # SubLen(b, j)

(* the fields the partition rule gives worker i of k for a range of N *)
RuleFields(i, N, k) ==
    [startval |-> (i * N) \div k, endval |-> ((i + 1) * N) \div k,
     maxval |-> N, total |-> k]

(* the output of the docstring example, as (index, startval, endval) *)
ExampleOutput == <<<<0, 0, 12>>, <<1, 12, 25>>, <<2, 25, 37>>, <<3, 37, 50>>>>

(* C11: partition rule.  Worker i of the k workers of a job of range N *)
(* is sent, and holds while it executes, startval = floor(i*N/k),      *)
(* endval = floor((i+1)*N/k), maxval = N and total = k; the job of     *)
(* range 50 on 4 workers resolves to (0,0,12), (1,12,25), (2,25,37),   *)
(* (3,37,50).                                                          *)
C11_PartitionRule ==
    \A j \in Submitted :
        LET N == jobs[j].valrange
            k == JobK(j)
        IN /\ \A i \in Procs : \A n \in DOMAIN send[i] :
                send[i][n].job = j =>
                    /\ send[i][n].startval = RuleFields(i, N, k).startval
                    /\ send[i][n].endval = RuleFields(i, N, k).endval
                    /\ send[i][n].maxval = N
                    /\ send[i][n].total = k
           /\ \A i \in Procs : Executing(i, j) => wfields[i] = RuleFields(i, N, k)
           /\ (future[j].sets > 0 /\ N = ExampleRange /\ k = ExampleProcs) =>
                /\ DOMAIN future[j].obj = 0 .. 3
                /\ \A i \in 0 .. 3 :
                      future[j].obj[i] =
                          Result("none", j, ExampleOutput[i + 1][1],
                                 ExampleOutput[i + 1][2], ExampleOutput[i + 1][3])

(* the example job has been resolved with the results of four workers *)
C11_Witness ==
    \E j \in Submitted :
        /\ jobs[j].valrange = ExampleRange /\ JobK(j) = ExampleProcs
        /\ future[j].sets > 0
        /\ future[j].obj[2].startval = 25

(* job j was submitted for one process or to a server of one process *)
LocalRequest(j) == jobs[j].numprocs = 1 \/ realnumprocs = 1

(* C12: local mode.  A job submitted with a requested count of 1, or *)
(* to a pool of size 1, has no execution message sent to any worker, *)
(* and once the dispatch loop is done with it its Future holds       *)
(* {0: r}, r being what the target returned or raised on the local   *)
(* worker of index 0 and range [0,valrange).                         *)
C12_LocalMode ==
    \A j \in Submitted :
        LocalRequest(j) =>
            /\ \A i \in Procs :
                  /\ wjob[i] # j
                  /\ \A n \in DOMAIN send[i] : send[i][n].job # j
            /\ Finished(j) =>
                  /\ future[j].sets = 1
                  /\ future[j].obj =
                        (0 :> Result(IF <<j, 0>> \in hRaised THEN "target" ELSE "none",
                                     j, 0, 0, jobs[j].valrange))

(* the shareObject() call of worker w in job j has returned *)
ShareDone(w, j) ==
    /\ wjob[w] = j /\ jobs[j].share
    /\ wpc[w] = "body" /\ wround[w] = 1

(* the target of no worker has raised in job j *)
NoneRaised(j) == \A f \in Procs : <<j, f>> \notin hRaised

(* C13: object-sharing round trip.  In a job in which the k >= 2     *)
(* workers each call shareObject("x", index) once and none raises,   *)
(* the map returned to worker w holds, for every other worker i of   *)
(* the job and for nobody else, the value i at key i.                *)
C13_ShareRoundTrip ==
    \A j \in Submitted : \A w \in Procs :
        (MultiWorker(j) /\ NoneRaised(j) /\ ShareDone(w, j)) =>
            /\ DOMAIN wshared[w] = Participants(j) \ {w}
            /\ \A i \in DOMAIN wshared[w] : wshared[w][i].val = i

(* a step in which an exception leaves the target of worker w *)
ExceptionIn(w) == wpc[w] \in {"body", "swap"} /\ wpc'[w] = "sentinel"

(* C14: an exception raised in a worker's target never ends the     *)
(* worker's loop.  The step that raises appends the exception to    *)
(* the worker's result pipe as the result of that job; the handler  *)
(* ends with the worker polling its instruction pipe again; and a   *)
(* polling worker with a request waiting can receive and execute it. *)
C14_WorkerSurvives ==
    /\ [][\A w \in WorkerIds : w \in Procs =>
            /\ ExceptionIn(w) =>
                  /\ Len(rrecv'[w]) = Len(rrecv[w]) + 1
                  /\ rrecv'[w][Len(rrecv'[w])].exc # "none"
                  /\ rrecv'[w][Len(rrecv'[w])].job = wjob[w]
            /\ (wpc[w] = "sentinel" /\ wpc'[w] # "sentinel") => wpc'[w] = "idle"]_vars
    /\ [](\A w \in WorkerIds : w \in Procs =>
            /\ wpc[w] # "exited"
            /\ (wpc[w] = "idle" /\ send[w] # <<>>) => ENABLED WorkerRecv(w))

(* a worker whose target raised in job 1 executes the target of job 2 *)
C14_Witness == \E w \in Procs : <<1, w>> \in hRaised /\ Executing(w, 2)

(* a step in which the dispatch loop issues the first execution *)
(* message of a job, or calls its target locally                *)
JobIssued ==
    \/ dpc = "send" /\ di = 0 /\ di' = 1
    \/ dpc = "local" /\ dpc' # dpc

(* a step in which the proxy thread of worker p answers getObjects *)
LookupServed(p) ==
    /\ ppc[p] = "call" /\ ppc'[p] = "poll"
    /\ Head(proxyReq[p]).name = "getObjects"

(* C15: no entry of an earlier job in the registry.  The registry is *)
(* empty in the step that issues the first execution message, or the *)
(* local target call, of a job; and a lookup made by a worker that   *)
(* executes job j is served from a registry whose entries were all   *)
(* published in job j.                                               *)
C15_RegistryFresh ==
    [][/\ JobIssued => objmap = EmptyMap
       /\ \A p \in WorkerIds : (p \in Procs /\ LookupServed(p)) =>
              \A i \in DOMAIN objmap :
                  objmap[i].job = Head(proxyReq[p]).obj.job]_vars

(* a step in which worker w writes the counter inside the with block *)
(* of sync(), whose lock it took in an earlier step                   *)
WriteInSync(w) == syncLock = w /\ wpc[w] = "incr" /\ wpc'[w] # "incr"

(* a step in which worker w takes the lock, writes the sentinel and *)
(* releases the lock                                                *)
WriteSentinel(w) == syncLock = -1 /\ wpc[w] = "sentinel" /\ wpc'[w] = "idle"

(* C18: every write to the barrier counter is made by a writer that *)
(* holds syncLock.  A step that changes the counter is a write of   *)
(* sync() by the holder of the lock or the sentinel write, which    *)
(* takes the lock.                                                  *)
C18_CounterUnderLock ==
    [][syncCounter' # syncCounter =>
          \E w \in Procs : WriteInSync(w) \/ WriteSentinel(w)]_vars

(* a step of a proxy thread that calls a method of the registry while *)
(* the thread holds the lock of the registry                          *)
LockedCall(p) == ppc[p] = "call" /\ ppc'[p] = "poll" /\ sharerLock = p

(* a step in which the dispatch loop calls self.sharer.clear() *)
ClearCalled == dpc = "get" /\ dpc' # dpc

(* C19: every operation on the registry is executed by a proxy thread *)
(* that holds the lock of the registry.  No registry operation        *)
(* overlaps another: clear() is not called while a proxy thread is    *)
(* inside its locked call; and every step that changes the registry   *)
(* is the locked call of a proxy thread.                              *)
C19_RegistrySerialized ==
    [][/\ ClearCalled => sharerLock = -1
       /\ objmap' # objmap => \E p \in Procs : LockedCall(p)]_vars

(* the stop flag is set or the parent process is gone *)
ShuttingDown == stopEvent \/ ~parentAlive

(* the exception sync() raised in worker w has just been sent *)
SyncRaised(w) ==
    /\ wpc[w] = "sentinel"
    /\ rrecv[w] # <<>>
    /\ rrecv[w][Len(rrecv[w])].exc \in {"parent", "sibling"}

(* C16: shutdown never leaves a worker hanging in the barrier.  A   *)
(* worker that waits in sync() while the stop flag is set or the    *)
(* parent process is gone eventually leaves the wait loop and has   *)
(* sync() raise; and no sync() call returns normally from then on.  *)
C16_ShutdownEndsWait ==
    /\ \A w \in WorkerIds :
          (w \in Procs /\ wpc[w] = "wait" /\ ShuttingDown)
              ~> (w \in Procs /\ SyncRaised(w))
    /\ [][\A w \in WorkerIds :
            (w \in Procs /\ wpc[w] = "swap" /\ ShuttingDown) =>
                wpc'[w] \in {"swap", "sentinel"}]_vars

(* sync() has raised the parent-exited exception after stop() *)
C16_Witness ==
    \E w \in Procs :
        /\ stopEvent /\ SyncRaised(w)
        /\ rrecv[w][Len(rrecv[w])].exc = "parent"

(* C17: an idle worker exits its loop once the stop flag is set or  *)
(* the parent process is gone, and a worker exits only while one of *)
(* the two holds.                                                   *)
C17_IdleWorkerExits ==
    /\ \A w \in WorkerIds :
          (w \in Procs /\ wpc[w] = "idle" /\ ShuttingDown)
              ~> (w \in Procs /\ wpc[w] = "exited")
    /\ [][\A w \in WorkerIds :
            (w \in Procs /\ wpc[w] # "exited" /\ wpc'[w] = "exited") =>
                (wpc[w] = "idle" /\ ShuttingDown)]_vars

(* a worker has exited after the parent process disappeared *)
C17_Witness == \E w \in Procs : wpc[w] = "exited" /\ ~parentAlive /\ ~stopEvent

(* a worker has arrived at the barrier and has not been released *)
RoundInProgress ==
    \E w \in Procs : wpc[w] \in {"incr", "wait"} /\ ~syncEvents[curEvent[w]]

(* C20 as stated: the counter is 0 in every state in which no worker *)
(* has arrived at a barrier that has not been released.              *)
C20_CounterZeroOutsideRound == ~RoundInProgress => syncCounter = 0

(* the sentinel written by a worker of a job on k of the pool's workers *)
Sentinels == {- k - 1 : k \in 2 .. realnumprocs}

(* C20, amended: while the pool is not shutting down, in every state *)
(* in which no worker has arrived at a barrier that has not been     *)
(* released, the counter is 0 or is the failure sentinel -(total+1)  *)
(* written after a worker raised.                                    *)
C20_CounterInvariant ==
    (~RoundInProgress /\ ~ShuttingDown) =>
        \/ syncCounter = 0
        \/ syncCounter \in Sentinels /\ hRaised # {}

(* a job has failed and left the sentinel in the counter *)
C20_Witness ==
    /\ ~RoundInProgress
    /\ \E j \in Submitted : \E w \in Procs :
          /\ future[j].sets > 0 /\ j \notin hPollErr
          /\ <<j, w>> \in hRaised
          /\ syncCounter = - JobK(j) - 1

(* the worker count the rule gives for range N, requested count q and *)
(* pool size P                                                        *)
RuleCount(N, q, P) == IF q <= 0 \/ q > P THEN Min(N, P) ELSE Min(N, q)

(* the workers that hold an execution message of job j *)
Receivers(j) == {i \in Procs : \E n \in DOMAIN send[i] : send[i][n].job = j}

(* the dispatch loop has run the send loop of job j, or its local call, *)
(* to the end                                                           *)
Dispatched(j) == Dequeued(j) /\ ~(djob = j /\ dpc \in {"local", "reset", "send"})

(* C21 as stated: once job j of range N and requested count q has been *)
(* dispatched on a pool of size P, the number of workers that have     *)
(* been sent an execution message of j is the rule's count.            *)
C21_CountReceivesMessage ==
    \A j \in Submitted :
        Dispatched(j) =>
            Cardinality(Receivers(j)) =
                RuleCount(jobs[j].valrange, jobs[j].numprocs, realnumprocs)

(* C21, amended: the dispatch loop resolves the count k of job j to   *)
(* the rule's count; when k is 1 or the pool has no worker process    *)
(* the target is called locally and no worker is sent a message,      *)
(* otherwise exactly the workers 0..k-1 are sent one message each     *)
(* (no worker when k is not positive).                                *)
C21_ResolvedCount ==
    \A j \in Submitted :
        LET k == RuleCount(jobs[j].valrange, jobs[j].numprocs, realnumprocs)
        IN /\ (djob = j /\ dpc # "get") => numprocs = k
           /\ Dispatched(j) =>
                /\ Receivers(j) = (IF k = 1 \/ Procs = {} THEN {} ELSE 0 .. k - 1)
                /\ \A i \in Receivers(j) :
                      Cardinality({n \in DOMAIN send[i] : send[i][n].job = j}) = 1

(* a job of range 2 asked of more workers than the three that exist *)
(* has been sent to two of them                                     *)
C21_Witness ==
    \E j \in Submitted :
        /\ realnumprocs = 3
        /\ jobs[j].valrange = 2 /\ jobs[j].numprocs > 3
        /\ Dispatched(j) /\ Receivers(j) = {0, 1}

(* C22: partitioned arguments.  In a k-worker job, every positional    *)
(* argument whose object the caller put into partitionArgs reaches     *)
(* worker i as the slice of that argument over worker i's sub-range    *)
(* [startval, endval) of [0,valrange), and every other argument        *)
(* reaches every worker unchanged.                                     *)
C22_PartitionedArgs ==
    \A j \in Submitted :
        (MultiWorker(j) /\ AllSent(j)) =>
            \A i \in Participants(j) : \A n \in DOMAIN jobs[j].args :
                SubRange(i, j).pargs[n] =
                    (IF n \in jobs[j].partitionArgs
                     THEN PySlice(jobs[j].args[n], SubRange(i, j).startval,
                                  SubRange(i, j).endval)
                     ELSE jobs[j].args[n])

(* the read of the Future of job j has ended with the timeout error *)
TimedOut(j) == j \in DOMAIN reader /\ reader[j].pc = "timeout"

(* C23: Future read timeout.  A read with a finite timeout ends: with *)
(* the timeout error only while the Future is unset, or with the      *)
(* object of the Future.  The step that raises the timeout changes    *)
(* nothing of the job, the queue, the dispatch loop or the workers,   *)
(* and the dispatch loop still sets the Future of the job, once.  A   *)
(* read that has ended with the timeout stays failed when the Future  *)
(* is set later.                                                      *)
C23_ReadTimeout ==
    /\ \A j \in 1 .. MaxJobs :
          (j \in DOMAIN reader /\ reader[j].pc = "waiting" /\ reader[j].finite)
              ~> (j \in DOMAIN reader /\ reader[j].pc \in {"timeout", "returned"})
    /\ [][\A j \in 1 .. MaxJobs :
            /\ (~TimedOut(j) /\ TimedOut(j)') =>
                  /\ future[j].sets = 0
                  /\ UNCHANGED <<svars, bvars, wvars, cvars, dvars, ovars>>
            /\ TimedOut(j) => (TimedOut(j)' /\ reader'[j] = reader[j])]_vars
    /\ \A j \in 1 .. MaxJobs : TimedOut(j) ~> (TimedOut(j) /\ future[j].sets = 1)
    /\ [](\A j \in Submitted : future[j].sets = (IF Finished(j) THEN 1 ELSE 0))

(* the Future of a job on two workers has been set after the read of *)
(* it had timed out                                                  *)
C23_Witness ==
    \E j \in Submitted :
        TimedOut(j) /\ MultiWorker(j) /\ future[j].sets = 1 /\ reader[j].val = EmptyMap

(* the wrapper called for job j has returned *)
Returned(j) == j \in DOMAIN reader /\ reader[j].pc = "returned"

(* a step in which the dispatch loop sets the Future of job j *)
FutureSet(j) == j \in DOMAIN future /\ future[j].sets = 0 /\ future'[j].sets = 1

(* C24: the wrapper made by concurrent() returns only after the     *)
(* dispatch loop has set the Future of the job it submitted, and    *)
(* returns the result map stored in that Future.  The wrapper does  *)
(* not return in the step that submits the job or sets the Future;  *)
(* the Future of a returned call is set and holds what the call     *)
(* returned; and a Future is set by a step of the dispatch loop.    *)
C24_WrapperBlocks ==
    /\ [](\A j \in Submitted :
            Returned(j) => (future[j].sets >= 1 /\ reader[j].val = future[j].obj))
    /\ [][\A j \in 1 .. MaxJobs :
            /\ (~Returned(j) /\ Returned(j)') =>
                  (j \in Submitted /\ future[j].sets >= 1 /\ future' = future)
            /\ FutureSet(j) =>
                  (djob = j /\ dpc \in {"local", "poll", "collect"} /\ dpc' = "loop")]_vars

(* the wrapper has returned the results of two workers, one of which *)
(* is the exception its target raised                                *)
C24_Witness ==
    \E j \in Submitted :
        /\ Returned(j) /\ MultiWorker(j) /\ j \notin hPollErr
        /\ DOMAIN reader[j].val = {0, 1}
        /\ \E w \in {0, 1} : reader[j].val[w].exc = "target"

(* worker w is blocked in a proxy call *)
InProxyCall(w) == wpc[w] \in {"publish", "lookup"}

(* the method and the job of the proxy call worker w is blocked in *)
CalledMethod(w) == IF wpc[w] = "publish" THEN "shareObject" ELSE "getObjects"

(* the method worker w has called raised in the server thread and the *)
(* exception has arrived as its response                              *)
RaisedResponse(w) ==
    \E n \in DOMAIN proxyResp[w] :
        /\ proxyResp[w][n].exc = "method"
        /\ proxyResp[w][n].name = CalledMethod(w)
        /\ proxyResp[w][n].job = wjob[w]

(* the exception worker w sends in this step *)
SentException(w) == rrecv'[w][Len(rrecv'[w])].exc

(* a step in which the server thread of worker p ends a method call *)
Served(p) == ppc[p] = "call" /\ ppc'[p] = "poll"

(* C25: remote call error path.  A server thread that has called the *)
(* method of a request sends one response to it, the exception when  *)
(* the method raised, and polls for requests again, where a waiting  *)
(* request can be taken up.  A proxy call whose method raised, with  *)
(* the exception arrived as its response, ends by raising that       *)
(* exception; a proxy call that ends with no response in the pipe    *)
(* raises the no-response error.                                     *)
C25_RemoteCallErrors ==
    /\ [][\A p \in WorkerIds : (p \in Procs /\ Served(p)) =>
            /\ Len(proxyResp'[p]) = Len(proxyResp[p]) + 1
            /\ proxyReq'[p] = Tail(proxyReq[p])
            /\ LET r == proxyResp'[p][Len(proxyResp'[p])]
                   m == Head(proxyReq[p])
               IN /\ r.name = m.name /\ r.job = m.obj.job
                  /\ (r.exc = "method") <=> (hMethodErr' # hMethodErr)
            /\ sharerLock' = -1]_vars
    /\ [](\A p \in WorkerIds :
            (p \in Procs /\ ppc[p] = "poll" /\ proxyReq[p] # <<>> /\ sharerLock = -1)
                => ENABLED ProxyLock(p))
    /\ [][\A w \in WorkerIds : (w \in Procs /\ InProxyCall(w) /\ wpc'[w] # wpc[w]) =>
            /\ RaisedResponse(w) =>
                  (wpc'[w] = "sentinel" /\ SentException(w) = "method")
            /\ proxyResp[w] = <<>> =>
                  (wpc'[w] = "sentinel" /\ SentException(w) = "noresponse")]_vars

(* the keys of a result map, and those that hold an exception *)
KeySet(m) == {m[n].key : n \in DOMAIN m}
ExceptionKeys(m) == {m[n].key : n \in {o \in DOMAIN m : m[o].val.kind = "exception"}}

(* the value a result map holds at key i *)
ValueAt(m, i) == m[CHOOSE n \in DOMAIN m : m[n].key = i].val

(* the result map holds exactly the items of the map f *)
SameItems(m, f) == KeySet(m) = DOMAIN f /\ \A i \in DOMAIN f : ValueAt(m, i) = f[i]

(* C26: checkResultMap raises the exception stored at the smallest  *)
(* worker index whose value is an exception, and returns without    *)
(* raising when no value of the map is an exception; for            *)
(* {0: err, 1: 5} it raises err.                                    *)
C26_RaisesFirstException ==
    reducer.op = "checkResultMap" =>
        LET m == reducer.map
            E == ExceptionKeys(m)
        IN /\ E = {} => ~reducer.raised
           /\ E # {} =>
                /\ reducer.raised
                /\ \E i \in E : /\ \A o \in E : i <= o
                                /\ reducer.val = ValueAt(m, i)
           /\ SameItems(m, (0 :> Exc("err")) @@ (1 :> Atom("5"))) =>
                (reducer.raised /\ reducer.val = Exc("err"))

(* checkResultMap has raised the exception of worker 0 from a map into *)
(* which the exception of worker 1 was inserted first                  *)
C26_Witness ==
    /\ reducer.op = "checkResultMap"
    /\ reducer.map = <<[key |-> 1, val |-> Exc("err2")], [key |-> 0, val |-> Exc("err")]>>
    /\ reducer.raised /\ reducer.val = Exc("err")

(* the key of a result map that has n - 1 smaller keys in the map *)
NthKey(m, n) ==
    CHOOSE i \in KeySet(m) : Cardinality({o \in KeySet(m) : o < i}) = n - 1

(* the lists of a result map joined in the order of the worker indices *)
(* i, i + 1, ...                                                       *)
RECURSIVE JoinedFrom(_, _)
JoinedFrom(m, i) ==
    IF i >= MaxPool THEN <<>>
    ELSE (IF i \in KeySet(m) THEN ValueAt(m, i).items ELSE <<>>)
             \o JoinedFrom(m, i + 1)

(* C27: listResults and sumResultMap order by ascending worker index  *)
(* whatever the insertion order of the map.  listResults gives one    *)
(* element per key, the n-th being the value at the n-th smallest     *)
(* key, and is ["a","b"] for {1:"b",0:"a"}; sumResultMap gives the    *)
(* lists joined in ascending key order and is [1,2,3] for             *)
(* {0:[1,2],1:[3]}.                                                   *)
C27_OrderedByIndex ==
    LET m == reducer.map
    IN /\ reducer.op = "listResults" =>
            /\ Len(reducer.listed) = Cardinality(KeySet(m))
            /\ Len(reducer.listed) = Len(m)
            /\ \A n \in DOMAIN reducer.listed :
                  reducer.listed[n] = ValueAt(m, NthKey(m, n))
            /\ SameItems(m, (0 :> Atom("a")) @@ (1 :> Atom("b"))) =>
                  reducer.listed = <<Atom("a"), Atom("b")>>
       /\ reducer.op = "sumResultMap" =>
            /\ reducer.summed = JoinedFrom(m, 0)
            /\ SameItems(m, (0 :> List(<<1, 2>>)) @@ (1 :> List(<<3>>))) =>
                  reducer.summed = <<1, 2, 3>>

(* listResults has been called on the map {1:"b",0:"a"} *)
C27_Witness ==
    /\ reducer.op = "listResults"
    /\ reducer.map = <<[key |-> 1, val |-> Atom("b")], [key |-> 0, val |-> Atom("a")]>>
    /\ reducer.listed = <<Atom("a"), Atom("b")>>

(* job j follows another job on the pool, and its k >= 2 workers each *)
(* call sync() once                                                   *)
LaterSyncJob(j) == j > 1 /\ MultiWorker(j) /\ jobs[j].rounds = 1

(* C28: the barrier keeps working across jobs.  In a job that follows *)
(* other jobs on the pool, and in which the k workers each call       *)
(* sync() once and none fails, no worker has returned from sync()     *)
(* before all k workers have entered it, and under fair scheduling    *)
(* every worker that has entered sync() returns from it.              *)
C28_BarrierAcrossJobs ==
    /\ [](\A j \in Submitted : \A w \in Procs :
            (LaterSyncJob(j) /\ NoneRaised(j) /\ Executing(w, j) /\ wround[w] = 1)
                => \A i \in Participants(j) : SyncsEntered(i, j) >= 1)
    /\ \A j \in 2 .. MaxJobs : \A w \in WorkerIds :
          (j \in Submitted /\ LaterSyncJob(j) /\ w \in Procs
               /\ Executing(w, j) /\ InSync(w))
              ~> (w \in Procs /\ Executing(w, j) /\ wround[w] = 1)

(* a step in which sync() raises the sibling-failure exception in *)
(* worker w                                                       *)
RaisesSiblingFailure(w) ==
    /\ wpc[w] = "swap" /\ wpc'[w] = "sentinel"
    /\ rrecv'[w][Len(rrecv'[w])].exc = "sibling"

(* a worker that executes job j observes a negative counter in sync() *)
SeesNegative(w) == wpc[w] \in {"incr", "wait", "swap"} /\ syncCounter < 0

(* C29: sync() raises the sibling-failure exception only if the target *)
(* of some worker has raised in the same job.  A worker in sync()      *)
(* sees a negative counter, and sync() raises the sibling-failure      *)
(* exception, only in a job in which the target of a worker raised.    *)
C29_FailureStaysInJob ==
    /\ [][\A w \in WorkerIds : (w \in Procs /\ RaisesSiblingFailure(w)) =>
            \E f \in Procs : <<wjob[w], f>> \in hRaised]_vars
    /\ [](\A w \in WorkerIds : (w \in Procs /\ SeesNegative(w)) =>
            \E f \in Procs : <<wjob[w], f>> \in hRaised)

(* a step taken by worker w inside sync() *)
SyncStep(w) == InSync(w) /\ wpc'[w] # wpc[w]

(* a step in which worker w enters sync() *)
SyncCalled(w) == wpc[w] \in {"body", "published"} /\ InSync(w)'

(* a step in which the dispatch loop resets the counter for the job *)
(* it is about to send out                                          *)
CounterReset == dpc = "reset" /\ dpc' # "reset"

(* C30: the sentinel stays.  While the counter is negative no step of *)
(* a worker in sync() changes it; it stays negative as long as the    *)
(* dispatch loop is sending out or waiting on the same job; and the   *)
(* only step that makes it non-negative is the reset to 0 by which    *)
(* the dispatch loop starts a multi-worker job later than every job   *)
(* a worker has executed.                                             *)
C30_SentinelStays ==
    [][syncCounter < 0 =>
          /\ \A w \in WorkerIds : (w \in Procs /\ (SyncStep(w) \/ SyncCalled(w))) =>
                syncCounter' = syncCounter
          /\ (dpc \in {"send", "poll", "collect"} /\ dpc' \in {"send", "poll", "collect"})
                => syncCounter' < 0
          /\ syncCounter' >= 0 =>
                /\ CounterReset /\ syncCounter' = 0
                /\ MultiWorker(djob)
                /\ \A w \in Procs : wjob[w] < djob]_vars

(* sync() has raised in a worker that found the sentinel of its sibling, *)
(* and the counter still holds the sentinel while the job is waited on   *)
C30_Witness ==
    \E w \in Procs :
        /\ wpc[w] = "sentinel"
        /\ rrecv[w] # <<>> /\ rrecv[w][Len(rrecv[w])].exc = "sibling"
        /\ syncCounter = - realnumprocs - 1
        /\ djob = wjob[w] /\ dpc = "poll"

(* the first of the two shareObject() calls of worker w's target has *)
(* returned and the second has not                                   *)
FirstExchangeDone(w) ==
    /\ wjob[w] > 0
    /\ jobs[wjob[w]].share
    /\ jobs[wjob[w]].rounds = 2
    /\ wround[w] = 1

(* C31: repeated exchange under one name.  The map a worker got back *)
(* from its first shareObject() call holds, for every sibling, the  *)
(* object that sibling published in its first call of the same job. *)
C31_RepeatedExchange ==
    \A w \in Procs :
        FirstExchangeDone(w) =>
            /\ DOMAIN wshared[w] = Procs \ {w}
            /\ \A i \in DOMAIN wshared[w] :
                   wshared[w][i] = [val |-> i, job |-> wjob[w], round |-> 0]

(* the result map of job j holds, for each of the job's k workers, the *)
(* indices of a sub-range, and the sub-ranges joined in worker order   *)
(* are [0, N)                                                          *)
RangeResult(j) ==
    LET obj == future[j].obj
        k == JobK(j)
    IN /\ DOMAIN obj = 0 .. k - 1
       /\ \A i \in 0 .. k - 1 :
             /\ obj[i].exc = "none" /\ obj[i].job = j /\ obj[i].index = i
             /\ obj[i].startval <= obj[i].endval
             /\ obj[i].startval = (IF i = 0 THEN 0 ELSE obj[i - 1].endval)
       /\ obj[k - 1].endval = jobs[j].valrange

(* C32: concurrencyTestRange terminates.  Under fair scheduling every *)
(* job that runs the routine on two or more workers is resolved, and  *)
(* its result map holds for worker i the indices of its sub-range,    *)
(* the sub-ranges joined in worker order being [0, N).                *)
C32_TestRangeTerminates ==
    /\ \A j \in 1 .. MaxJobs :
          (j \in Submitted /\ MultiWorker(j)) ~>
              (j \in Submitted /\ future[j].sets >= 1)
    /\ [](\A j \in Submitted :
            (MultiWorker(j) /\ future[j].sets >= 1) => RangeResult(j))

(* the dispatch loop has taken a job from the queue and has not yet *)
(* run its target or sent its first execution message               *)
JobStarting == dpc \in {"local", "reset"}

(* every value of the result map of job j is a result of job j or the *)
(* exception of the polling block of job j                            *)
OwnResults(j) ==
    \A i \in DOMAIN future[j].obj : future[j].obj[i].job = j

(* C33: a job starts on a quiet pool.  Whenever the dispatch loop     *)
(* starts a job, every worker is idle and every return channel is     *)
(* empty, and every value of a resolved job's result map was produced *)
(* by that job, also when the job before it ended by the except       *)
(* clause of the polling block.                                       *)
C33_QuietStart ==
    /\ JobStarting =>
          \A w \in Procs : wpc[w] = "idle" /\ rrecv[w] = <<>>
    /\ \A j \in Submitted : future[j].sets >= 1 => OwnResults(j)

(* C34: every job is resolved.  Under fair scheduling, with targets *)
(* that return and no shutdown, the Future of every submitted job   *)
(* is eventually set, whatever its range size and requested count.  *)
C34_EveryJobResolved ==
    \A j \in 1 .. MaxJobs :
        (j \in Submitted) ~> (j \in Submitted /\ future[j].sets >= 1)

(* a step in which the proxy call of worker w receives a response *)
(* (line 68)                                                      *)
ReceivesResponse(w) ==
    /\ InProxyCall(w)
    /\ proxyResp[w] # <<>>
    /\ proxyResp'[w] = Tail(proxyResp[w])

(* C35: responses are paired with requests.  The response a proxy call *)
(* receives is the response to its own request: it answers the method  *)
(* the call named, in the job the calling target belongs to, also      *)
(* after an earlier call on the proxy ended with the no-response       *)
(* error.                                                              *)
C35_ResponsePaired ==
    [][\A w \in WorkerIds :
          (w \in Procs /\ ReceivesResponse(w)) =>
              /\ Head(proxyResp[w]).name = CalledMethod(w)
              /\ Head(proxyResp[w]).job = wjob[w]]_vars

(* a step in which worker w receives an execution request and calls *)
(* the target                                                       *)
TargetStarts(w) == wpc[w] = "idle" /\ InTarget(w)'

(* a step in which the target called by worker w returns or raises *)
TargetEnds(w) == InTarget(w) /\ ~InTarget(w)'

(* C36: one result per request.  The step in which a worker's target *)
(* ends sends exactly one message on the worker's return channel,    *)
(* the result of the job it executed: the return value when the      *)
(* target returned, an exception otherwise.  No other step of the    *)
(* worker sends anything, and a target is only called for a request  *)
(* taken from the instruction channel.                               *)
C36_OneResultPerRequest ==
    [][\A w \in WorkerIds : w \in Procs =>
          /\ TargetStarts(w) => (send[w] # <<>> /\ send'[w] = Tail(send[w]))
          /\ TargetEnds(w) =>
                /\ Len(rrecv'[w]) = Len(rrecv[w]) + 1
                /\ SubSeq(rrecv'[w], 1, Len(rrecv[w])) = rrecv[w]
                /\ rrecv'[w][Len(rrecv'[w])].job = wjob[w]
                /\ rrecv'[w][Len(rrecv'[w])].index = w
                /\ (rrecv'[w][Len(rrecv'[w])].exc = "none") <=> (wpc'[w] = "idle")
          /\ ~TargetEnds(w) =>
                (rrecv'[w] = rrecv[w] \/ rrecv'[w] = Tail(rrecv[w]))]_vars

(* a worker has sent an exception for its first request and a return *)
(* value for its second                                              *)
C36_Witness ==
    \E w \in Procs :
        /\ <<1, w>> \in hRaised
        /\ wjob[w] = 2 /\ wpc[w] = "idle"
        /\ rrecv[w] # <<>>
        /\ rrecv[w][Len(rrecv[w])] = TargetResult(w, "none")

(* a step in which an execution message is put on an instruction *)
(* channel                                                        *)
MessageSent == \E w \in Procs : Len(send'[w]) > Len(send[w])

(* C37: job set-up ordering.  An execution message is sent only from *)
(* the send loop, for the job the loop is at; the send loop is only  *)
(* entered by the step that resets the barrier counter to 0; and     *)
(* that step is only reached by the step that dequeued the job,      *)
(* cleared the registry and zeroed every progress cell.  None of the *)
(* set-up steps sends a message.                                     *)
C37_SetupBeforeSend ==
    [][/\ MessageSent => (dpc = "send" /\ djob' = djob /\ MultiWorker(djob))
       /\ (dpc' = "send" /\ dpc # "send") =>
             /\ dpc = "reset" /\ di' = 0
             /\ syncCounter' = 0
             /\ djob' = djob /\ ~MessageSent
       /\ (dpc' = "reset" /\ dpc # "reset") =>
             /\ dpc = "get"
             /\ djob' = Head(jobqueue)
             /\ objmap' = EmptyMap
             /\ \A i \in DOMAIN progress' : progress'[i] = 0
             /\ ~MessageSent]_vars

(* the first message of the second job is sent with the registry   *)
(* empty, the progress cells at 0 and the counter at 0, after a    *)
(* first job in which a target raised                              *)
C37_Witness ==
    /\ djob = 2 /\ dpc = "send" /\ di = 1
    /\ \E w \in Procs : <<1, w>> \in hRaised
    /\ syncCounter = 0
    /\ objmap = EmptyMap
    /\ \A i \in DOMAIN progress : progress[i] = 0

(* the pool workers job j does not use: all of them in local mode, *)
(* the workers k..P-1 of a job resolved with k workers             *)
Bystanders(j) ==
    IF JobK(j) = 1 THEN Procs ELSE Procs \ (0 .. JobK(j) - 1)

(* worker w holds the fields a message of job j gave it *)
FieldsFrom(w, j) == wjob[w] = j

(* C38: workers outside a job are left alone.  For a job resolved   *)
(* with k workers on a pool of P > k processes, and for a job run   *)
(* locally, no execution message of the job is in a bystander's     *)
(* instruction channel, no bystander executes its target or holds   *)
(* fields set by it, and no result of the job is in a bystander's   *)
(* return channel; the job's result map has no bystander's key.     *)
C38_BystandersUntouched ==
    \A j \in Submitted :
        JobK(j) >= 1 =>
            /\ \A w \in Bystanders(j) :
                  /\ \A n \in DOMAIN send[w] : send[w][n].job # j
                  /\ ~FieldsFrom(w, j)
                  /\ \A n \in DOMAIN rrecv[w] : rrecv[w][n].job # j
            /\ (future[j].sets >= 1 /\ JobK(j) > 1) =>
                  DOMAIN future[j].obj \cap Bystanders(j) = {}

(* a job on two of three workers has been resolved with the third *)
(* worker idle, and a local job after it                          *)
C38_Witness ==
    /\ realnumprocs = 3
    /\ Len(jobs) = 2
    /\ JobK(1) = 2 /\ JobK(2) = 1
    /\ future[1].sets = 1 /\ future[2].sets = 1
    /\ \A i \in {0, 1} : future[1].obj[i].exc = "none"
    /\ wjob = (0 :> 1 @@ 1 :> 1 @@ 2 :> 0)

(* a step in which the target of a local job runs in the dispatch *)
(* thread                                                         *)
LocalRun == dpc = "local" /\ dpc' # "local"

(* the local target of the job the dispatch loop is at calls sync() *)
(* or shareObject() at least once                                   *)
LocalTargetSyncs == djob > 0 /\ LocalCalls(djob) > 0

(* C39: local mode never touches the barrier or the registry.  The   *)
(* run of a local target that calls sync() or shareObject() leaves   *)
(* the barrier counter, the lock, both events, the registry and the  *)
(* proxy channels as they were, whatever state they are in; in       *)
(* target code that does not raise of its own the calls do not raise *)
(* either; and the run can always complete, so it never blocks.      *)
C39_LocalNoOp ==
    /\ [][(LocalRun /\ LocalTargetSyncs) =>
            /\ UNCHANGED <<syncCounter, syncLock, syncEvents>>
            /\ UNCHANGED <<objmap, proxyReq, proxyResp>>
            /\ future'[djob].sets = future[djob].sets + 1
            /\ future'[djob].obj[0].exc =
                   (IF hRaised' # hRaised THEN "target" ELSE "none")]_vars
    /\ [](dpc = "local" => ENABLED DispLocal)

(* a local target that calls shareObject() has returned while the *)
(* counter holds the failure sentinel of the job before it        *)
C39_Witness ==
    /\ realnumprocs = 2
    /\ Len(jobs) = 2 /\ JobK(2) = 1 /\ jobs[2].share
    /\ future[2].sets = 1 /\ future[2].obj[0].exc = "none"
    /\ syncCounter < 0

(* a step in which the dispatch loop takes a job from the queue *)
JobDequeued == Len(jobqueue') < Len(jobqueue)

(* a step in which execution of a job begins: its target is run in *)
(* the dispatch thread or an execution message of it is sent       *)
JobBegun == LocalRun \/ MessageSent

(* C40: no job starts after stop().  Once the stop flag is set the *)
(* dispatch loop takes no job from the queue, sends no execution   *)
(* message and runs no target locally.                             *)
C40_NoJobAfterStop ==
    [][stopEvent => (~JobDequeued /\ ~JobBegun)]_vars

====
